---- MODULE Spec2Model ----
\* Model of the Solana indexer's ingestion pipeline (indexer-bin/src/main.rs,
\* indexer-core/src/{db,firehose,spl_parser,*_parser}.rs): the firehose task,
\* the bounded block queue, the sequential writer, and the Postgres tables it
\* writes, one action per database statement.
EXTENDS Integers, Sequences, FiniteSets, TLC

\* ------------------------------------------------------------------ bounds

\* Highest slot the upstream stream delivers (slots 0..MaxSlot).
MaxSlot == 2
\* Instructions in the whole stream.
MaxIxs == 2
\* Database statements that fail, over a whole behaviour.
MaxFaults == 1
\* Process starts after the first one (crash or exit, then supervisor restart).
MaxRestarts == 1
\* Capacity of the block channel, mpsc::channel(1024), scaled down.
QueueCap == 2
\* Width of the i64/u64/BIGINT integers, 64 bits in the program, scaled down.
WordBits == 3
\* Width of the u64 backoff_ms, scaled down; delays are counted in seconds.
BackoffBits == 6
\* Stream errors in a row, over one run of the process.
MaxReconnects == 7
\* Bits of a byte of a u64 payload, 8 in the program; a u64 is 8 bytes.
ByteBits == 1
\* Significant bits of an f64, 53 in the program, scaled down.
MantissaBits == 4
\* Websocket clients of the api.
MaxSubscribers == 2
\* Notifications the bridge receives, over a whole behaviour.
MaxEvents == 3
\* Capacity of the broadcast channel, broadcast::channel(10_000), scaled down.
BusCap == 2
\* Subscribe messages the clients send, over a whole behaviour.
MaxSubscribes == 2
\* Client messages other than subscribe messages, over a whole behaviour.
MaxOtherMessages == 1
\* Block times run over -MaxTime..MaxTime seconds around the epoch.
MaxTime == 125

\* ------------------------------------------------------------------ integers

RECURSIVE Pow2(_)
Pow2(n) == IF n = 0 THEN 1 ELSE 2 * Pow2(n - 1)

I64_MAX == Pow2(WordBits - 1) - 1
I64_MIN == 0 - Pow2(WordBits - 1)
U64_MAX == Pow2(WordBits) - 1
InI64(x) == I64_MIN <= x /\ x <= I64_MAX

\* `x as i64` on a u64: two's complement reinterpretation.
AsI64(u) == IF u > I64_MAX THEN u - Pow2(WordBits) ELSE u

\* Unary minus on an i64. -i64::MIN overflows: a build with overflow checks
\* panics, one without wraps to i64::MIN.
NegOutcomes(a) ==
    IF a = I64_MIN
    THEN {[panic |-> TRUE, v |-> 0], [panic |-> FALSE, v |-> I64_MIN]}
    ELSE {[panic |-> FALSE, v |-> 0 - a]}

\* Rust's % on i64: the remainder takes the sign of the dividend.
RustRem(a, b) == IF a >= 0 THEN a % b ELSE 0 - ((0 - a) % b)

\* Option<i64>
None == [some |-> FALSE, v |-> 0]
Some(x) == [some |-> TRUE, v |-> x]
UnwrapOr(o, d) == IF o.some THEN o.v ELSE d

\* ------------------------------------------------------------------ blocks

TimeframeSecs == 60

\* Instruction shapes the stream is drawn from. An instruction is given by
\* what the decoders read out of it: the program, the SPL discriminator, the
\* resolved accounts and the two u64 payload values.
SplShapes ==
    { [program |-> "spl", kind |-> 12, a0 |-> "A", a1 |-> "B", mint |-> "M",
       amount |-> 1, sol |-> 0],
      [program |-> "spl", kind |-> 12, a0 |-> "B", a1 |-> "A", mint |-> "M",
       amount |-> I64_MAX, sol |-> 0],
      [program |-> "spl", kind |-> 7, a0 |-> "system", a1 |-> "A", mint |-> "M",
       amount |-> I64_MAX + 1, sol |-> 0],
      [program |-> "spl", kind |-> 8, a0 |-> "A", a1 |-> "burn", mint |-> "M",
       amount |-> 1, sol |-> 0] }

SwapShapes ==
    { [program |-> "pump", kind |-> 0, a0 |-> "T", a1 |-> "", mint |-> "P",
       amount |-> 1, sol |-> 2],
      [program |-> "raydium", kind |-> 0, a0 |-> "T", a1 |-> "", mint |-> "P",
       amount |-> 1, sol |-> 3],
      [program |-> "meteora", kind |-> 0, a0 |-> "T", a1 |-> "", mint |-> "P",
       amount |-> 1, sol |-> 1] }

IxShapes == SplShapes \cup SwapShapes

BlockTimes == {None, Some(90)}

Wallets == {"A", "B", "system", "burn"}
Mints == {"M"}


\* ------------------------------------------------------------------ state

VARIABLES
    chain,                 \* upstream: the blocks of slots 0, 1, ... in order
    config_from_slot,      \* config.firehose.from_slot as configured
    config_firehose,       \* config.firehose: endpoint and backoff settings
    api,                   \* indexer-api: the broadcast channel and its
                           \* websocket subscribers (SpecApi)
    dec,                   \* a block handed to the decoders and what they
                           \* returned (SpecDecode, SpecDirection)
    token_transfers,       \* table token_transfers, rows in insertion order
    bonding_curve_trades,  \* table bonding_curve_trades, rows in insertion order
    balances,              \* table balances: <<wallet, mint>> -> amount
    candles,               \* table candles: <<mint, timeframe, bucket>> -> row
    last_processed_slot,   \* table last_processed_slot, row id = 1
    indexer_events,        \* table indexer_events, rows in insertion order
    notifications,         \* payloads sent on channel indexer_events
    proc,                  \* "up" while run_indexer runs, else "down"
    block_rx,              \* the mpsc channel between the two tasks
    writer,                \* writer task: position in the loop body
    firehose,              \* FirehoseClient and its position in stream_blocks
    faults,                \* failed statements so far
    restarts,              \* restarts so far
    abandoned,             \* slots abandoned and not since processed in full
    applied,               \* <<signature, ix_index>> -> debits and credits applied
    bal_before,            \* balances when the writer dequeued its block
    blk_failed,            \* a candle upsert of the writer's block has failed
    perm,                  \* two orders of one set of transfers, each applied
                           \* to balances of its own (SpecCommute)
    trace                  \* what the two tasks did: upserts per candle,
                           \* insert_event calls of the block at hand, slots
                           \* pushed and dequeued, the cursor read at startup

db_vars == <<token_transfers, bonding_curve_trades, balances, candles,
             last_processed_slot, indexer_events, notifications>>
hist_vars == <<abandoned, applied, bal_before, blk_failed>>
vars == <<chain, config_from_slot, config_firehose, api, dec, token_transfers, bonding_curve_trades,
          balances, candles, last_processed_slot, indexer_events,
          notifications, proc, block_rx, writer, firehose, faults, restarts,
          abandoned, applied, bal_before, blk_failed, perm, trace>>

Slots == 0..MaxSlot

SeqsUpTo(S, n) == UNION {[1..k -> S] : k \in 0..n}

HasSwap(ixs) == \E i \in 1..Len(ixs) : ixs[i].program # "spl"

\* Block bodies of at most n instructions. A block with no swap always
\* carries its block time (the time only decides whether a trade gets a
\* candle).
Bodies(n) ==
    { b \in [block_time : BlockTimes, ixs : SeqsUpTo(IxShapes, n)] :
        HasSwap(b.ixs) \/ b.block_time.some }

RECURSIVE Chains(_, _)
\* The streams of k blocks with at most n instructions in all; the block of
\* slot s is the (s + 1)-th.
Chains(k, n) ==
    IF k = 0 THEN {<<>>}
    ELSE UNION { { <<b>> \o c : c \in Chains(k - 1, n - Len(b.ixs)) } :
                 b \in Bodies(n) }

\* BlockRef { slot, block_time_unix, transactions }: one transaction per
\* block, signature = slot, instructions numbered from 0.
BlockAt(s) == [slot |-> s, block_time_unix |-> chain[s + 1].block_time,
               ixs |-> chain[s + 1].ixs]

FromSlots == {None, Some(1)}

\* config.firehose.mint_whitelist
MintWhitelist == {}

\* ------------------------------------------------------------------ decoders

TokenTransfer(block, i, mint, src, dst) ==
    [signature |-> block.slot, slot |-> block.slot,
     block_time |-> block.block_time_unix, mint_pubkey |-> mint,
     source_owner |-> src, dest_owner |-> dst,
     amount |-> AsI64(block.ixs[i].amount),
     tx_index |-> 0, ix_index |-> i - 1]

\* parse_spl_transfer: Some(row) or None, as a set of at most one row.
parse_spl_transfer(block, i, mint_whitelist) ==
    LET ix == block.ixs[i]
        listed == mint_whitelist = {} \/ ix.mint \in mint_whitelist
    IN  CASE ix.kind = 3 ->
              IF mint_whitelist # {} THEN {}
              ELSE {TokenTransfer(block, i, "unknown_mint", ix.a0, ix.a1)}
          [] ix.kind = 12 ->
              IF listed THEN {TokenTransfer(block, i, ix.mint, ix.a0, ix.a1)}
              ELSE {}
          [] ix.kind \in {7, 13} ->
              IF listed THEN {TokenTransfer(block, i, ix.mint, "system", ix.a1)}
              ELSE {}
          [] ix.kind \in {8, 14} ->
              IF listed THEN {TokenTransfer(block, i, ix.mint, ix.a0, "burn")}
              ELSE {}
          [] OTHER -> {}

RECURSIVE FlatMap(_, _, _)
\* The rows Parse(block, i) yields for i = from..Len(block.ixs), in order.
FlatMap(Parse(_, _), block, from) ==
    IF from > Len(block.ixs) THEN <<>>
    ELSE LET r == Parse(block, from)
         IN  (IF r = {} THEN <<>> ELSE <<CHOOSE x \in r : TRUE>>)
             \o FlatMap(Parse, block, from + 1)

ParseSplAt(block, i) ==
    IF block.ixs[i].program # "spl" THEN {}
    ELSE parse_spl_transfer(block, i, MintWhitelist)

extract_transfers_from_block(block) == FlatMap(ParseSplAt, block, 1)

\* u64 division guarded by the zero test, then `as i64`.
Price(sol, token) == IF token = 0 THEN 0 ELSE sol \div token

BondingCurveTrade(block, i) ==
    LET ix == block.ixs[i]
    IN  [signature |-> block.slot, slot |-> block.slot,
         block_time |-> block.block_time_unix, mint_pubkey |-> ix.mint,
         trader |-> ix.a0,
         token_amount |-> AsI64(ix.amount), sol_amount |-> AsI64(ix.sol),
         price_nanos_per_token |-> AsI64(Price(ix.sol, ix.amount)),
         tx_index |-> 0, ix_index |-> i - 1]

ParsePumpAt(block, i) ==
    IF block.ixs[i].program # "pump" THEN {} ELSE {BondingCurveTrade(block, i)}
\* parse_raydium_swap records a placeholder mint built from the trader.
ParseRaydiumAt(block, i) ==
    IF block.ixs[i].program # "raydium" THEN {}
    ELSE {[BondingCurveTrade(block, i) EXCEPT !.mint_pubkey = "raydium_pool_T"]}
ParseMeteoraAt(block, i) ==
    IF block.ixs[i].program # "meteora" THEN {} ELSE {BondingCurveTrade(block, i)}

extract_pump_trades_from_block(block) == FlatMap(ParsePumpAt, block, 1)
extract_raydium_trades_from_block(block) == FlatMap(ParseRaydiumAt, block, 1)
extract_meteora_trades_from_block(block) == FlatMap(ParseMeteoraAt, block, 1)

Venues == <<"pump", "raydium", "meteora">>

VenueTrades(block, v) ==
    CASE v = 1 -> extract_pump_trades_from_block(block)
      [] v = 2 -> extract_raydium_trades_from_block(block)
      [] v = 3 -> extract_meteora_trades_from_block(block)

\* [pump_trades, raydium_trades, meteora_trades].concat()
all_trades(block) ==
    VenueTrades(block, 1) \o VenueTrades(block, 2) \o VenueTrades(block, 3)


\* ------------------------------------------------------------------ tables

HasKey(rows, sig, ix) ==
    \E k \in 1..Len(rows) : rows[k].signature = sig /\ rows[k].ix_index = ix

\* The INSERT without its ON CONFLICT clause.
InsertRowNoConflict(rows, r) == Append(rows, r)

\* INSERT ... ON CONFLICT (signature, ix_index) DO NOTHING
InsertRow(rows, r) ==
    IF HasKey(rows, r.signature, r.ix_index) THEN rows ELSE Append(rows, r)

\* apply_delta: INSERT ... ON CONFLICT (wallet, mint_pubkey) DO UPDATE SET
\* amount = balances.amount + EXCLUDED.amount. BIGINT addition out of range
\* is an error of the statement.
apply_delta(bal, wallet, mint_pubkey, delta) ==
    LET k == <<wallet, mint_pubkey>>
    IN  IF k \in DOMAIN bal
        THEN IF InI64(bal[k] + delta)
             THEN [ok |-> TRUE, bal |-> [bal EXCEPT ![k] = @ + delta]]
             ELSE [ok |-> FALSE, bal |-> bal]
        ELSE [ok |-> TRUE, bal |-> bal @@ (k :> delta)]

Max(a, b) == IF a >= b THEN a ELSE b
Min(a, b) == IF a <= b THEN a ELSE b

\* The candidate candle the writer builds for one trade.
CandleOf(t) ==
    LET bt == t.block_time.v
    IN  [mint_pubkey |-> t.mint_pubkey, timeframe_secs |-> TimeframeSecs,
         bucket_start |-> bt - RustRem(bt, TimeframeSecs),
         open |-> t.price_nanos_per_token, high |-> t.price_nanos_per_token,
         low |-> t.price_nanos_per_token, close |-> t.price_nanos_per_token,
         volume_token |-> t.token_amount, volume_sol |-> t.sol_amount,
         trades_count |-> 1]

\* upsert_candle with SET high = EXCLUDED.high in place of GREATEST.
upsert_candle_high_replaced(cs, c) ==
    LET k == <<c.mint_pubkey, c.timeframe_secs, c.bucket_start>>
    IN  IF k \in DOMAIN cs
        THEN IF InI64(cs[k].volume_token + c.volume_token)
                /\ InI64(cs[k].volume_sol + c.volume_sol)
             THEN [ok |-> TRUE,
                   cs |-> [cs EXCEPT ![k] =
                       [@ EXCEPT !.high = c.high,
                                 !.low = Min(@, c.low),
                                 !.close = c.close,
                                 !.volume_token = @ + c.volume_token,
                                 !.volume_sol = @ + c.volume_sol,
                                 !.trades_count = @ + c.trades_count]]]
             ELSE [ok |-> FALSE, cs |-> cs]
        ELSE [ok |-> TRUE, cs |-> cs @@ (k :> c)]

\* upsert_candle with ON CONFLICT ... DO NOTHING.
upsert_candle_do_nothing(cs, c) ==
    LET k == <<c.mint_pubkey, c.timeframe_secs, c.bucket_start>>
    IN  IF k \in DOMAIN cs THEN [ok |-> TRUE, cs |-> cs]
        ELSE [ok |-> TRUE, cs |-> cs @@ (k :> c)]

\* upsert_candle with open = EXCLUDED.open added to the SET list.
upsert_candle_open_replaced(cs, c) ==
    LET k == <<c.mint_pubkey, c.timeframe_secs, c.bucket_start>>
    IN  IF k \in DOMAIN cs
        THEN IF InI64(cs[k].volume_token + c.volume_token)
                /\ InI64(cs[k].volume_sol + c.volume_sol)
             THEN [ok |-> TRUE,
                   cs |-> [cs EXCEPT ![k] =
                       [@ EXCEPT !.open = c.open,
                                 !.high = Max(@, c.high),
                                 !.low = Min(@, c.low),
                                 !.close = c.close,
                                 !.volume_token = @ + c.volume_token,
                                 !.volume_sol = @ + c.volume_sol,
                                 !.trades_count = @ + c.trades_count]]]
             ELSE [ok |-> FALSE, cs |-> cs]
        ELSE [ok |-> TRUE, cs |-> cs @@ (k :> c)]

\* upsert_candle: INSERT ... ON CONFLICT (mint_pubkey, timeframe_secs,
\* bucket_start) DO UPDATE SET high = GREATEST, low = LEAST, close = EXCLUDED,
\* volumes and count added.
upsert_candle(cs, c) ==
    LET k == <<c.mint_pubkey, c.timeframe_secs, c.bucket_start>>
    IN  IF k \in DOMAIN cs
        THEN IF InI64(cs[k].volume_token + c.volume_token)
                /\ InI64(cs[k].volume_sol + c.volume_sol)
             THEN [ok |-> TRUE,
                   cs |-> [cs EXCEPT ![k] =
                       [@ EXCEPT !.high = Max(@, c.high),
                                 !.low = Min(@, c.low),
                                 !.close = c.close,
                                 !.volume_token = @ + c.volume_token,
                                 !.volume_sol = @ + c.volume_sol,
                                 !.trades_count = @ + c.trades_count]]]
             ELSE [ok |-> FALSE, cs |-> cs]
        ELSE [ok |-> TRUE, cs |-> cs @@ (k :> c)]

\* set_last_processed_slot: INSERT ... ON CONFLICT (id) DO UPDATE SET slot.
set_last_processed_slot(slot) == Some(slot)

\* ------------------------------------------------------------------ writer

NoCalls == [transfers |-> 0, bonding |-> 0, candles |-> 0, upserts |-> 0]

NoTrace == [candle_log |-> <<>>, calls |-> NoCalls, pushed |-> <<>>,
            dequeued |-> <<>>, cursor_read |-> None, slept |-> <<>>]

CandleKey(c) == <<c.mint_pubkey, c.timeframe_secs, c.bucket_start>>

\* The upserts that succeeded on the candle of key k, in order.
LogOf(k) ==
    IF k \in DOMAIN trace.candle_log THEN trace.candle_log[k] ELSE <<>>

NoBlock == [slot |-> 0 - 1, block_time_unix |-> None, ixs |-> <<>>]
Idle == [pc |-> "recv", block |-> NoBlock, v |-> 0, i |-> 0]
At(pc, v, i) == [pc |-> pc, block |-> writer.block, v |-> v, i |-> i]

RECURSIVE CandlePhase(_, _)
\* The candle loop from all_trades[i] on: a trade with no block time is
\* passed over, past the last trade comes the cursor write.
CandlePhase(block, i) ==
    IF i > Len(all_trades(block)) THEN [pc |-> "set_cursor", v |-> 0, i |-> 0]
    ELSE IF ~all_trades(block)[i].block_time.some THEN CandlePhase(block, i + 1)
    ELSE [pc |-> "candle", v |-> 0, i |-> i]

RECURSIVE TradesPhase(_, _)
\* The `if !<venue>_trades.is_empty()` sections from venue v on.
TradesPhase(block, v) ==
    IF v > 3 THEN CandlePhase(block, 1)
    ELSE IF VenueTrades(block, v) # <<>>
         THEN [pc |-> "ins_trades", v |-> v, i |-> 1]
         ELSE TradesPhase(block, v + 1)

Goto(block, p) == [pc |-> p.pc, block |-> block, v |-> p.v, i |-> p.i]

Transfers == extract_transfers_from_block(writer.block)
CurTransfer == Transfers[writer.i]
CurTrades == VenueTrades(writer.block, writer.v)
CurCandleTrade == all_trades(writer.block)[writer.i]

Running(pc) == proc = "up" /\ writer.pc = pc
CanFail == faults < MaxFaults

\* The failed step without its `continue`: the loop body falls through to the
\* steps that follow.
AbandonFallsThrough ==
    /\ writer' = Goto(writer.block, CandlePhase(writer.block, 1))
    /\ abandoned' = abandoned \cup {writer.block.slot}
    /\ UNCHANGED <<applied, bal_before, blk_failed>>

\* The failed step logged, and the event loop of its rows run all the same.
AbandonThenEvents ==
    /\ writer' = IF writer.pc = "ins_trades"
                 THEN At("ev_trades", writer.v, 1)
                 ELSE At("ev_transfers", 0, 1)
    /\ abandoned' = abandoned \cup {writer.block.slot}
    /\ UNCHANGED <<applied, bal_before, blk_failed>>

\* `continue` of the while loop after a failed step.
Abandon ==
    /\ writer' = Idle
    /\ abandoned' = abandoned \cup {writer.block.slot}
    /\ bal_before' = balances
    /\ blk_failed' = FALSE
    /\ UNCHANGED applied

\* recv handing out the newest block of the channel instead of the oldest.
WriterRecvNewest ==
    /\ Running("recv")
    /\ block_rx # <<>>
    /\ LET block == block_rx[Len(block_rx)]
       IN  /\ writer' = IF extract_transfers_from_block(block) # <<>>
                        THEN [pc |-> "ins_transfers", block |-> block,
                              v |-> 0, i |-> 1]
                        ELSE Goto(block, TradesPhase(block, 1))
           /\ trace' = [trace EXCEPT
                  !.calls = NoCalls,
                  !.dequeued = Append(@, block.slot)]
    /\ block_rx' = SubSeq(block_rx, 1, Len(block_rx) - 1)
    /\ bal_before' = balances
    /\ blk_failed' = FALSE
    /\ UNCHANGED <<perm, chain, config_from_slot, config_firehose, api, dec, db_vars, proc, firehose, faults,
                   restarts, abandoned, applied>>

\* block_rx.recv() and the four decoders.
WriterRecv ==
    /\ Running("recv")
    /\ block_rx # <<>>
    /\ LET block == Head(block_rx)
       IN  writer' = IF extract_transfers_from_block(block) # <<>>
                     THEN [pc |-> "ins_transfers", block |-> block,
                           v |-> 0, i |-> 1]
                     ELSE Goto(block, TradesPhase(block, 1))
    /\ block_rx' = Tail(block_rx)
    /\ bal_before' = balances
    /\ blk_failed' = FALSE
    /\ trace' = [trace EXCEPT
           !.calls = NoCalls,
           !.dequeued = Append(@, Head(block_rx).slot)]
    /\ UNCHANGED <<perm, chain, config_from_slot, config_firehose, api, dec, db_vars, proc, firehose, faults,
                   restarts, abandoned, applied>>

\* block_rx.recv() returns None: the channel is empty and its sender was
\* dropped with the firehose task. The while loop ends and the task returns.
WriterRecvClosed ==
    /\ Running("recv")
    /\ block_rx = <<>>
    /\ firehose.pc = "ended"
    /\ writer' = [Idle EXCEPT !.pc = "returned"]
    /\ UNCHANGED <<trace, perm, chain, config_from_slot, config_firehose, api,
                   dec, db_vars, proc, block_rx, firehose, faults, restarts,
                   hist_vars>>

\* insert_transfers: one INSERT per row.
InsertTransfers ==
    /\ Running("ins_transfers")
    /\ token_transfers' = InsertRow(token_transfers, CurTransfer)
    /\ writer' = IF writer.i < Len(Transfers)
                 THEN At("ins_transfers", 0, writer.i + 1)
                 ELSE At("upd_debit", 0, 1)
    /\ UNCHANGED <<trace, perm, chain, config_from_slot, config_firehose, api, dec, bonding_curve_trades, balances,
                   candles, last_processed_slot, indexer_events, notifications,
                   proc, block_rx, firehose, faults, restarts, hist_vars>>

InsertTransfersErr ==
    /\ Running("ins_transfers")
    /\ CanFail
    /\ faults' = faults + 1
    /\ Abandon
    /\ UNCHANGED <<trace, perm, chain, config_from_slot, config_firehose, api, dec, db_vars, proc, block_rx, firehose,
                   restarts>>


Key(t) == <<t.signature, t.ix_index>>

\* update_balances_for_transfers, first statement of a row:
\* apply_delta(source_owner, mint, -t.amount).
UpdateBalancesDebit ==
    /\ Running("upd_debit")
    /\ \E n \in NegOutcomes(CurTransfer.amount) :
         IF n.panic
         THEN /\ writer' = [Idle EXCEPT !.pc = "ended"]
              /\ block_rx' = <<>>
              /\ UNCHANGED <<balances, hist_vars>>
         ELSE LET r == apply_delta(balances, CurTransfer.source_owner,
                                   CurTransfer.mint_pubkey, n.v)
              IN  IF r.ok
                  THEN /\ balances' = r.bal
                       /\ applied' = [applied EXCEPT
                              ![Key(CurTransfer)].debits = @ + 1]
                       /\ writer' = At("upd_credit", 0, writer.i)
                       /\ UNCHANGED <<block_rx, abandoned, bal_before,
                                      blk_failed>>
                  ELSE /\ Abandon
                       /\ UNCHANGED <<balances, block_rx>>
    /\ UNCHANGED <<trace, perm, chain, config_from_slot, config_firehose, api, dec, token_transfers,
                   bonding_curve_trades, candles, last_processed_slot,
                   indexer_events, notifications, proc, firehose, faults,
                   restarts>>

\* Second statement of a row: apply_delta(dest_owner, mint, t.amount).
UpdateBalancesCredit ==
    /\ Running("upd_credit")
    /\ LET r == apply_delta(balances, CurTransfer.dest_owner,
                            CurTransfer.mint_pubkey, CurTransfer.amount)
       IN  IF r.ok
           THEN /\ balances' = r.bal
                /\ applied' = [applied EXCEPT
                       ![Key(CurTransfer)].credits = @ + 1]
                /\ writer' = IF writer.i < Len(Transfers)
                             THEN At("upd_debit", 0, writer.i + 1)
                             ELSE At("ev_transfers", 0, 1)
                /\ UNCHANGED <<abandoned, bal_before, blk_failed>>
           ELSE /\ Abandon
                /\ UNCHANGED balances
    /\ UNCHANGED <<trace, perm, chain, config_from_slot, config_firehose, api, dec, token_transfers,
                   bonding_curve_trades, candles, last_processed_slot,
                   indexer_events, notifications, proc, block_rx, firehose,
                   faults, restarts>>

UpdateBalancesErr ==
    /\ Running("upd_debit") \/ Running("upd_credit")
    /\ CanFail
    /\ faults' = faults + 1
    /\ Abandon
    /\ UNCHANGED <<trace, perm, chain, config_from_slot, config_firehose, api, dec, db_vars, proc, block_rx, firehose,
                   restarts>>

\* insert_event with the two statements in the other order: pg_notify, then
\* the INSERT.
insert_event_notify_first(e) ==
    \/ /\ indexer_events' = Append(indexer_events, e)
       /\ notifications' = Append(notifications, e)
       /\ UNCHANGED faults
    \/ /\ CanFail
       /\ faults' = faults + 1
       /\ UNCHANGED <<indexer_events, notifications>>
    \/ /\ CanFail
       /\ faults' = faults + 1
       /\ notifications' = Append(notifications, e)
       /\ UNCHANGED indexer_events

\* insert_event: INSERT INTO indexer_events, then SELECT pg_notify. Either
\* statement may fail; the caller logs the error and goes on.
insert_event(e) ==
    \/ /\ indexer_events' = Append(indexer_events, e)
       /\ notifications' = Append(notifications, e)
       /\ UNCHANGED faults
    \/ /\ CanFail
       /\ faults' = faults + 1
       /\ UNCHANGED <<indexer_events, notifications>>
    \/ /\ CanFail
       /\ faults' = faults + 1
       /\ indexer_events' = Append(indexer_events, e)
       /\ UNCHANGED notifications

Event(topic, mint, sig, ix) ==
    [topic |-> topic, mint_pubkey |-> mint, signature |-> sig, ix_index |-> ix]

\* The event loop with `continue` of the block loop on a failed insert_event.
TransferEventStopsOnError ==
    /\ Running("ev_transfers")
    /\ insert_event(Event("transfers", CurTransfer.mint_pubkey,
                          CurTransfer.signature, CurTransfer.ix_index))
    /\ writer' = IF faults' # faults THEN Idle
                 ELSE IF writer.i < Len(Transfers)
                 THEN At("ev_transfers", 0, writer.i + 1)
                 ELSE Goto(writer.block, TradesPhase(writer.block, 1))
    /\ trace' = [trace EXCEPT !.calls.transfers = @ + 1]
    /\ UNCHANGED <<perm, chain, config_from_slot, config_firehose, api, dec, token_transfers,
                   bonding_curve_trades, balances, candles,
                   last_processed_slot, proc, block_rx, firehose, restarts,
                   hist_vars>>

\* The `for t in &transfers` event loop.
TransferEvent ==
    /\ Running("ev_transfers")
    /\ insert_event(Event("transfers", CurTransfer.mint_pubkey,
                          CurTransfer.signature, CurTransfer.ix_index))
    /\ writer' = IF writer.i < Len(Transfers)
                 THEN At("ev_transfers", 0, writer.i + 1)
                 ELSE Goto(writer.block, TradesPhase(writer.block, 1))
    /\ trace' = [trace EXCEPT !.calls.transfers = @ + 1]
    /\ UNCHANGED <<perm, chain, config_from_slot, config_firehose, api, dec, token_transfers,
                   bonding_curve_trades, balances, candles,
                   last_processed_slot, proc, block_rx, firehose, restarts,
                   hist_vars>>

\* insert_bonding_curve_trades for one venue: one INSERT per row.
InsertTrades ==
    /\ Running("ins_trades")
    /\ bonding_curve_trades' =
           InsertRow(bonding_curve_trades, CurTrades[writer.i])
    /\ writer' = IF writer.i < Len(CurTrades)
                 THEN At("ins_trades", writer.v, writer.i + 1)
                 ELSE At("ev_trades", writer.v, 1)
    /\ UNCHANGED <<trace, perm, chain, config_from_slot, config_firehose, api, dec, token_transfers, balances, candles,
                   last_processed_slot, indexer_events, notifications, proc,
                   block_rx, firehose, faults, restarts, hist_vars>>

InsertTradesErr ==
    /\ Running("ins_trades")
    /\ CanFail
    /\ faults' = faults + 1
    /\ Abandon
    /\ UNCHANGED <<trace, perm, chain, config_from_slot, config_firehose, api, dec, db_vars, proc, block_rx, firehose,
                   restarts>>

\* The event loop of a venue left after its first row.
TradeEventFirstOnly ==
    /\ Running("ev_trades")
    /\ insert_event(Event("bonding", CurTrades[writer.i].mint_pubkey,
                          CurTrades[writer.i].signature,
                          CurTrades[writer.i].ix_index))
    /\ writer' = Goto(writer.block, TradesPhase(writer.block, writer.v + 1))
    /\ trace' = [trace EXCEPT !.calls.bonding = @ + 1]
    /\ UNCHANGED <<perm, chain, config_from_slot, config_firehose, api, dec, token_transfers,
                   bonding_curve_trades, balances, candles,
                   last_processed_slot, proc, block_rx, firehose, restarts,
                   hist_vars>>

\* The `for t in &<venue>_trades` event loop.
TradeEvent ==
    /\ Running("ev_trades")
    /\ insert_event(Event("bonding", CurTrades[writer.i].mint_pubkey,
                          CurTrades[writer.i].signature,
                          CurTrades[writer.i].ix_index))
    /\ writer' = IF writer.i < Len(CurTrades)
                 THEN At("ev_trades", writer.v, writer.i + 1)
                 ELSE Goto(writer.block, TradesPhase(writer.block, writer.v + 1))
    /\ trace' = [trace EXCEPT !.calls.bonding = @ + 1]
    /\ UNCHANGED <<perm, chain, config_from_slot, config_firehose, api, dec, token_transfers,
                   bonding_curve_trades, balances, candles,
                   last_processed_slot, proc, block_rx, firehose, restarts,
                   hist_vars>>

\* upsert_candle for all_trades[i].
UpsertCandle ==
    /\ Running("candle")
    /\ LET r == upsert_candle(candles, CandleOf(CurCandleTrade))
       IN  IF r.ok
           THEN /\ candles' = r.cs
                /\ writer' = At("ev_candle", 0, writer.i)
                /\ trace' = [trace EXCEPT
                       !.calls.upserts = @ + 1,
                       !.candle_log =
                           LET k == CandleKey(CandleOf(CurCandleTrade))
                           IN  IF k \in DOMAIN @
                               THEN [@ EXCEPT ![k] = Append(@, CurCandleTrade)]
                               ELSE @ @@ (k :> <<CurCandleTrade>>)]
                /\ UNCHANGED blk_failed
           ELSE /\ writer' = Goto(writer.block,
                                  CandlePhase(writer.block, writer.i + 1))
                /\ blk_failed' = TRUE
                /\ UNCHANGED <<candles, trace>>
    /\ UNCHANGED <<perm, chain, config_from_slot, config_firehose, api, dec, token_transfers,
                   bonding_curve_trades, balances, last_processed_slot,
                   indexer_events, notifications, proc, block_rx, firehose,
                   faults, restarts, abandoned, applied, bal_before>>

\* A failed upsert: `continue` of the candle loop, the block goes on.
UpsertCandleErr ==
    /\ Running("candle")
    /\ CanFail
    /\ faults' = faults + 1
    /\ writer' = Goto(writer.block, CandlePhase(writer.block, writer.i + 1))
    /\ blk_failed' = TRUE
    /\ UNCHANGED <<trace, perm, chain, config_from_slot, config_firehose, api, dec, db_vars, proc, block_rx, firehose,
                   restarts, abandoned, applied, bal_before>>

CandleEvent ==
    /\ Running("ev_candle")
    /\ insert_event(Event("candles", CurCandleTrade.mint_pubkey,
                          CurCandleTrade.signature, CurCandleTrade.ix_index))
    /\ writer' = Goto(writer.block, CandlePhase(writer.block, writer.i + 1))
    /\ trace' = [trace EXCEPT !.calls.candles = @ + 1]
    /\ UNCHANGED <<perm, chain, config_from_slot, config_firehose, api, dec, token_transfers,
                   bonding_curve_trades, balances, candles,
                   last_processed_slot, proc, block_rx, firehose, restarts,
                   hist_vars>>

\* set_last_processed_slot(block.slot), the last statement of the loop body.
SetCursor ==
    /\ Running("set_cursor")
    /\ last_processed_slot' = set_last_processed_slot(writer.block.slot)
    /\ writer' = Idle
    /\ abandoned' = IF blk_failed THEN abandoned
                    ELSE abandoned \ {writer.block.slot}
    /\ bal_before' = balances
    /\ blk_failed' = FALSE
    /\ UNCHANGED <<trace, perm, chain, config_from_slot, config_firehose, api, dec, token_transfers,
                   bonding_curve_trades, balances, candles, indexer_events,
                   notifications, proc, block_rx, firehose, faults, restarts,
                   applied>>

\* The cursor write fails: logged, the loop goes on with the next block.
SetCursorErr ==
    /\ Running("set_cursor")
    /\ CanFail
    /\ faults' = faults + 1
    /\ writer' = Idle
    /\ abandoned' = IF blk_failed THEN abandoned
                    ELSE abandoned \ {writer.block.slot}
    /\ bal_before' = balances
    /\ blk_failed' = FALSE
    /\ UNCHANGED <<trace, perm, chain, config_from_slot, config_firehose, api, dec, db_vars, proc, block_rx, firehose,
                   restarts, applied>>


\* ------------------------------------------------------------------ firehose

\* unwrap_or(1_000) and unwrap_or(30_000) of stream_blocks, in seconds.
InitialBackoffDefault == 1
MaxBackoffDefault == 30

BACKOFF_U64_MAX == Pow2(BackoffBits) - 1

initial_backoff_ms ==
    UnwrapOr(config_firehose.initial_backoff_ms, InitialBackoffDefault)
max_backoff_ms == UnwrapOr(config_firehose.max_backoff_ms, MaxBackoffDefault)

\* backoff_ms * 2 on a u64: past u64::MAX a build with overflow checks
\* panics, one without wraps.
DoubleOutcomes(b) ==
    IF 2 * b > BACKOFF_U64_MAX
    THEN {[panic |-> TRUE, v |-> 0],
          [panic |-> FALSE, v |-> (2 * b) % Pow2(BackoffBits)]}
    ELSE {[panic |-> FALSE, v |-> 2 * b]}

Off == [pc |-> "off", from_slot |-> None, last_slot |-> None,
        current_slot |-> 0, backoff_ms |-> 0]

\* FirehoseClient::new on the configuration run_indexer hands it, and the
\* first line of stream_blocks: backoff_ms = initial_backoff_ms.
NewFirehoseClient(from_slot) ==
    [pc |-> "connect", from_slot |-> from_slot, last_slot |-> from_slot,
     current_slot |-> 0, backoff_ms |-> initial_backoff_ms]

\* The Err arm of stream_blocks ending the loop instead of going round.
StreamErrorReturns ==
    /\ Len(trace.slept) < MaxReconnects
    /\ trace' = [trace EXCEPT !.slept = Append(@, firehose.backoff_ms)]
    /\ firehose' = [firehose EXCEPT !.pc = "ended"]

\* The Err arm of stream_blocks: sleep(backoff_ms), then
\* backoff_ms = (backoff_ms * 2).min(max_backoff_ms), then the next turn of
\* the loop. (The Ok arm is never taken: stream_from_jetstreamer has no Ok
\* return.)
StreamError ==
    /\ Len(trace.slept) < MaxReconnects
    /\ trace' = [trace EXCEPT !.slept = Append(@, firehose.backoff_ms)]
    /\ \E d \in DoubleOutcomes(firehose.backoff_ms) :
          firehose' = IF d.panic THEN [firehose EXCEPT !.pc = "ended"]
                      ELSE [firehose EXCEPT
                               !.pc = "connect",
                               !.backoff_ms = Min(d.v, max_backoff_ms)]

\* connect_and_stream: the start slot of this connection.
start_slot(fh) == UnwrapOr(fh.last_slot, UnwrapOr(fh.from_slot, 0))

FirehoseConnect ==
    /\ proc = "up"
    /\ firehose.pc = "connect"
    /\ ~config_firehose.endpoint_empty
    /\ firehose' = [firehose EXCEPT !.pc = "stream",
                                    !.current_slot = start_slot(firehose)]
    /\ UNCHANGED <<trace, perm, chain, config_from_slot, config_firehose, api, dec, db_vars, proc, block_rx, writer,
                   faults, restarts, hist_vars>>

\* stream_from_jetstreamer returns Err at once: the endpoint is empty.
FirehoseConnectErr ==
    /\ proc = "up"
    /\ firehose.pc = "connect"
    /\ config_firehose.endpoint_empty
    /\ StreamError
    /\ UNCHANGED <<perm, chain, config_from_slot, config_firehose, api, dec,
                   db_vars, proc, block_rx, writer, faults, restarts,
                   hist_vars>>

\* The streaming loop on an unbounded channel: send never waits.
FirehoseSendUnbounded ==
    /\ proc = "up"
    /\ firehose.pc = "stream"
    /\ firehose.current_slot <= MaxSlot
    /\ writer.pc # "ended"
    /\ block_rx' = Append(block_rx, BlockAt(firehose.current_slot))
    /\ firehose' = [firehose EXCEPT
           !.last_slot = Some(firehose.current_slot),
           !.current_slot = firehose.current_slot + 1]
    /\ trace' = [trace EXCEPT !.pushed = Append(@, firehose.current_slot)]
    /\ UNCHANGED <<perm, chain, config_from_slot, config_firehose, api, dec, db_vars, proc, writer, faults,
                   restarts, hist_vars>>

\* One turn of the streaming loop: block_tx.send(block) returned Ok. send
\* waits while the channel is full.
FirehoseSend ==
    /\ proc = "up"
    /\ firehose.pc = "stream"
    /\ firehose.current_slot <= MaxSlot
    /\ writer.pc # "ended"
    /\ Len(block_rx) < QueueCap
    /\ block_rx' = Append(block_rx, BlockAt(firehose.current_slot))
    /\ firehose' = [firehose EXCEPT
           !.last_slot = Some(firehose.current_slot),
           !.current_slot = firehose.current_slot + 1]
    /\ trace' = [trace EXCEPT !.pushed = Append(@, firehose.current_slot)]
    /\ UNCHANGED <<perm, chain, config_from_slot, config_firehose, api, dec, db_vars, proc, writer, faults,
                   restarts, hist_vars>>

\* send fails once the receiver is gone: stream_from_jetstreamer returns Err
\* and stream_blocks sleeps and connects again.
FirehoseSendErr ==
    /\ proc = "up"
    /\ firehose.pc = "stream"
    /\ firehose.current_slot <= MaxSlot
    /\ writer.pc = "ended"
    /\ StreamError
    /\ UNCHANGED <<perm, chain, config_from_slot, config_firehose, api, dec, db_vars, proc, block_rx, writer,
                   faults, restarts, hist_vars>>

\* ------------------------------------------------------------------ process

Down ==
    /\ proc' = "down"
    /\ block_rx' = <<>>
    /\ writer' = Idle
    /\ firehose' = Off
    /\ bal_before' = balances
    /\ blk_failed' = FALSE
    /\ trace' = [trace EXCEPT !.calls = NoCalls, !.pushed = <<>>,
                              !.dequeued = <<>>, !.slept = <<>>]
    /\ UNCHANGED <<perm, chain, config_from_slot, config_firehose, api, dec, db_vars, faults, restarts,
                   abandoned, applied>>

\* The process is killed at any point; every committed statement stays.
Crash ==
    /\ proc = "up"
    /\ restarts < MaxRestarts
    /\ Down

\* run_indexer awaiting both JoinHandles (join!) instead of the first.
RunIndexerJoins ==
    /\ proc = "up"
    /\ writer.pc \in {"ended", "returned"}
    /\ firehose.pc = "ended"
    /\ Down

\* select! in run_indexer: the JoinHandle of the writer or of the firehose
\* task completed.
RunIndexerReturn ==
    /\ proc = "up"
    /\ writer.pc \in {"ended", "returned"} \/ firehose.pc = "ended"
    /\ Down

\* Startup resuming at the slot of the cursor instead of the slot after it.
UpSameSlot(last_slot) ==
    /\ proc' = "up"
    /\ restarts' = restarts + 1
    /\ firehose' = NewFirehoseClient(IF last_slot.some
                                     THEN Some(last_slot.v)
                                     ELSE config_from_slot)
    /\ trace' = [trace EXCEPT !.cursor_read = last_slot]
    /\ UNCHANGED <<perm, chain, config_from_slot, config_firehose, api, dec, db_vars, block_rx, writer,
                   hist_vars>>

\* The start of run_indexer on the result `last_slot` of the cursor read:
\* from_slot = Some(slot + 1) when a row was read, then the firehose task.
Up(last_slot) ==
    /\ proc' = "up"
    /\ restarts' = restarts + 1
    /\ firehose' = NewFirehoseClient(IF last_slot.some
                                     THEN Some(last_slot.v + 1)
                                     ELSE config_from_slot)
    /\ trace' = [trace EXCEPT !.cursor_read = last_slot]
    /\ UNCHANGED <<perm, chain, config_from_slot, config_firehose, api, dec, db_vars, block_rx, writer,
                   hist_vars>>

\* run_indexer: get_last_processed_slot(&pool).await.ok().flatten(), then
\* from_slot = Some(slot + 1) when a row was read.
RunIndexer ==
    /\ proc = "down"
    /\ restarts < MaxRestarts
    /\ Up(last_processed_slot)
    /\ UNCHANGED faults

\* The cursor read with `?` in place of .ok(): run_indexer returns the error
\* and nothing is started.
RunIndexerReadErrReturns ==
    /\ proc = "down"
    /\ restarts < MaxRestarts
    /\ CanFail
    /\ faults' = faults + 1
    /\ restarts' = restarts + 1
    /\ UNCHANGED <<trace, perm, chain, config_from_slot, config_firehose, api,
                   dec, db_vars, proc, block_rx, writer, firehose, hist_vars>>

\* The cursor read fails: .ok() turns the error into None.
RunIndexerReadErr ==
    /\ proc = "down"
    /\ restarts < MaxRestarts
    /\ CanFail
    /\ faults' = faults + 1
    /\ Up(None)

\* ------------------------------------------------------------------ spec

Keys == {<<s, i>> : s \in Slots, i \in 0..(MaxIxs - 1)}

DefaultFirehoseConfig ==
    [endpoint_empty |-> FALSE, initial_backoff_ms |-> None,
     max_backoff_ms |-> None]

\* The API process and the decoders at rest.
NoApi == [log |-> <<>>, arrived |-> <<>>, subs |-> <<>>]
NoDec == [pc |-> "off", block |-> <<>>, mint_whitelist |-> {},
          transfers |-> <<>>, pump_trades |-> <<>>, raydium_trades |-> <<>>,
          meteora_trades |-> <<>>]

NoPerm == [left |-> <<>>, right |-> <<>>, done_l |-> 0, done_r |-> 0,
           bal_l |-> <<>>, bal_r |-> <<>>, err_l |-> FALSE, err_r |-> FALSE,
           overflow_checks |-> FALSE]

Init ==
    /\ chain \in Chains(MaxSlot + 1, MaxIxs)
    /\ config_from_slot \in FromSlots
    /\ config_firehose \in [endpoint_empty : BOOLEAN,
                            initial_backoff_ms : {None},
                            max_backoff_ms : {None}]
    /\ api = NoApi
    /\ dec = NoDec
    /\ token_transfers = <<>>
    /\ bonding_curve_trades = <<>>
    /\ balances = <<>>
    /\ candles = <<>>
    /\ last_processed_slot = None
    /\ indexer_events = <<>>
    /\ notifications = <<>>
    /\ proc = "up"
    /\ block_rx = <<>>
    /\ writer = Idle
    /\ firehose = NewFirehoseClient(config_from_slot)
    /\ faults = 0
    /\ restarts = 0
    /\ abandoned = {}
    /\ applied = [k \in Keys |-> [debits |-> 0, credits |-> 0]]
    /\ bal_before = <<>>
    /\ blk_failed = FALSE
    /\ perm = NoPerm
    /\ trace = NoTrace

Next ==
    \/ WriterRecv
    \/ InsertTransfers
    \/ InsertTransfersErr
    \/ UpdateBalancesDebit
    \/ UpdateBalancesCredit
    \/ UpdateBalancesErr
    \/ TransferEvent
    \/ InsertTrades
    \/ InsertTradesErr
    \/ TradeEvent
    \/ UpsertCandle
    \/ UpsertCandleErr
    \/ CandleEvent
    \/ SetCursor
    \/ SetCursorErr
    \/ FirehoseConnect
    \/ FirehoseConnectErr
    \/ FirehoseSend
    \/ FirehoseSendErr
    \/ Crash
    \/ RunIndexerReturn
    \/ RunIndexer
    \/ RunIndexerReadErr

Spec == Init /\ [][Next]_vars

\* One turn of the writer task, whatever its outcome.
WriterStep ==
    \/ WriterRecv
    \/ InsertTransfers
    \/ InsertTransfersErr
    \/ UpdateBalancesDebit
    \/ UpdateBalancesCredit
    \/ UpdateBalancesErr
    \/ TransferEvent
    \/ InsertTrades
    \/ InsertTradesErr
    \/ TradeEvent
    \/ UpsertCandle
    \/ UpsertCandleErr
    \/ CandleEvent
    \/ SetCursor
    \/ SetCursorErr




\* ------------------------------------------------------------------ orders

\* Transfers in one set whose orders are compared.
MaxPerm == 3

\* One row of update_balances_for_transfers on balances bal: the debit, then
\* the credit; a failed statement (or the panic of the negation, in a build
\* with overflow checks) ends the call with what was applied so far.
update_balances_row(bal, t, overflow_checks) ==
    LET n == CHOOSE x \in NegOutcomes(t.amount) :
                 t.amount = I64_MIN => x.panic = overflow_checks
        d == apply_delta(bal, t.source_owner, t.mint_pubkey, n.v)
        c == apply_delta(d.bal, t.dest_owner, t.mint_pubkey, t.amount)
    IN  IF n.panic \/ ~d.ok THEN [ok |-> FALSE, bal |-> bal]
        ELSE IF ~c.ok THEN [ok |-> FALSE, bal |-> d.bal]
        ELSE [ok |-> TRUE, bal |-> c.bal]

Orders(n) ==
    {p \in [1..n -> 1..n] : \A i, j \in 1..n : p[i] = p[j] => i = j}

\* The transfers decoded from a block of SPL instructions.
TransferSeqs ==
    { extract_transfers_from_block(
          [slot |-> 0, block_time_unix |-> None, ixs |-> ixs]) :
        ixs \in SeqsUpTo(SplShapes, MaxPerm) }

InitCommute ==
    /\ chain = [s \in 1..(MaxSlot + 1) |-> [block_time |-> Some(90), ixs |-> <<>>]]
    /\ config_from_slot = None
    /\ config_firehose = DefaultFirehoseConfig
    /\ api = NoApi
    /\ dec = NoDec
    /\ token_transfers = <<>>
    /\ bonding_curve_trades = <<>>
    /\ balances = <<>>
    /\ candles = <<>>
    /\ last_processed_slot = None
    /\ indexer_events = <<>>
    /\ notifications = <<>>
    /\ proc = "down"
    /\ block_rx = <<>>
    /\ writer = Idle
    /\ firehose = Off
    /\ faults = 0
    /\ restarts = 0
    /\ abandoned = {}
    /\ applied = [k \in Keys |-> [debits |-> 0, credits |-> 0]]
    /\ bal_before = <<>>
    /\ blk_failed = FALSE
    /\ trace = NoTrace
    /\ \E ts \in TransferSeqs, p \in Orders(MaxPerm),
          oc \in BOOLEAN :
          /\ \A i \in 1..MaxPerm : i > Len(ts) => p[i] = i
          /\ perm = [NoPerm EXCEPT
                 !.left = ts,
                 !.right = [i \in 1..Len(ts) |-> ts[p[i]]],
                 !.overflow_checks = oc]

main_vars == <<chain, config_from_slot, config_firehose, api, dec, db_vars, proc, block_rx, writer,
               firehose, faults, restarts, hist_vars, trace>>

\* The next transfer of the left order is applied to the left balances.
ApplyLeft ==
    /\ ~perm.err_l
    /\ perm.done_l < Len(perm.left)
    /\ LET r == update_balances_row(perm.bal_l, perm.left[perm.done_l + 1],
                                    perm.overflow_checks)
       IN  perm' = [perm EXCEPT !.bal_l = r.bal,
                                !.err_l = ~r.ok,
                                !.done_l = IF r.ok THEN @ + 1 ELSE @]
    /\ UNCHANGED main_vars

\* The next transfer of the right order is applied to the right balances.
ApplyRight ==
    /\ ~perm.err_r
    /\ perm.done_r < Len(perm.right)
    /\ LET r == update_balances_row(perm.bal_r, perm.right[perm.done_r + 1],
                                    perm.overflow_checks)
       IN  perm' = [perm EXCEPT !.bal_r = r.bal,
                                !.err_r = ~r.ok,
                                !.done_r = IF r.ok THEN @ + 1 ELSE @]
    /\ UNCHANGED main_vars

NextCommute ==
    \/ ApplyLeft
    \/ ApplyRight

SpecCommute == InitCommute /\ [][NextCommute]_vars

\* ------------------------------------------------------------------ backoff

\* Option<u64> of the two backoff settings.
OptBackoff == {None} \cup {Some(x) : x \in 0..BACKOFF_U64_MAX}

\* Empty tables, no fault and no restart yet, both tasks at their start.
Fresh ==
    /\ token_transfers = <<>>
    /\ bonding_curve_trades = <<>>
    /\ balances = <<>>
    /\ candles = <<>>
    /\ last_processed_slot = None
    /\ indexer_events = <<>>
    /\ notifications = <<>>
    /\ block_rx = <<>>
    /\ writer = Idle
    /\ faults = 0
    /\ restarts = 0
    /\ abandoned = {}
    /\ applied = [k \in Keys |-> [debits |-> 0, credits |-> 0]]
    /\ bal_before = <<>>
    /\ blk_failed = FALSE
    /\ perm = NoPerm
    /\ trace = NoTrace

\* The stream as stream_from_jetstreamer produces it: every block with
\* `transactions: vec![]` and a block time.
SimulatedChain ==
    [s \in 1..(MaxSlot + 1) |-> [block_time |-> Some(90), ixs |-> <<>>]]

\* run_indexer on any pair of backoff settings, with and without an endpoint.
InitBackoff ==
    /\ chain = SimulatedChain
    /\ config_from_slot \in FromSlots
    /\ config_firehose \in [endpoint_empty : BOOLEAN,
                            initial_backoff_ms : OptBackoff,
                            max_backoff_ms : OptBackoff]
    /\ api = NoApi
    /\ dec = NoDec
    /\ proc = "up"
    /\ firehose = NewFirehoseClient(config_from_slot)
    /\ Fresh

NextBackoff ==
    \/ FirehoseConnect
    \/ FirehoseConnectErr
    \/ FirehoseSend
    \/ WriterRecv
    \/ WriterRecvClosed
    \/ SetCursor
    \/ RunIndexerReturn

SpecBackoff == InitBackoff /\ [][NextBackoff]_vars

\* run_indexer on the simulated stream with the default backoff settings.
InitLive ==
    /\ chain = SimulatedChain
    /\ config_from_slot \in FromSlots
    /\ config_firehose \in [endpoint_empty : BOOLEAN,
                            initial_backoff_ms : {None},
                            max_backoff_ms : {None}]
    /\ api = NoApi
    /\ dec = NoDec
    /\ proc = "up"
    /\ firehose = NewFirehoseClient(config_from_slot)
    /\ Fresh

\* The steps the pipeline takes on blocks without instructions.
NextLive ==
    \/ FirehoseConnect
    \/ FirehoseConnectErr
    \/ FirehoseSend
    \/ WriterRecv
    \/ SetCursor
    \/ SetCursorErr
    \/ Crash
    \/ RunIndexer
    \/ RunIndexerReadErr

\* The tokio runtime polls both spawned tasks: a task that can take a step
\* takes one.
SpecLive ==
    /\ InitLive
    /\ [][NextLive]_vars
    /\ WF_vars(FirehoseConnect)
    /\ WF_vars(FirehoseSend)
    /\ WF_vars(WriterStep)

\* ------------------------------------------------------------------ buckets

\* A stream whose first block holds one trade at any block time around the
\* epoch and whose second block holds one trade with no block time.
TimedChain(t) ==
    << [block_time |-> Some(t),
        ixs |-> <<[program |-> "pump", kind |-> 0, a0 |-> "T", a1 |-> "",
                   mint |-> "P", amount |-> 1, sol |-> 2]>>],
       [block_time |-> None,
        ixs |-> <<[program |-> "meteora", kind |-> 0, a0 |-> "T", a1 |-> "",
                   mint |-> "P", amount |-> 1, sol |-> 1]>>] >>
    \o [s \in 1..(MaxSlot - 1) |-> [block_time |-> Some(90), ixs |-> <<>>]]

InitBucket ==
    /\ \E t \in (0 - MaxTime)..MaxTime : chain = TimedChain(t)
    /\ config_from_slot = None
    /\ config_firehose = DefaultFirehoseConfig
    /\ api = NoApi
    /\ dec = NoDec
    /\ proc = "up"
    /\ firehose = NewFirehoseClient(config_from_slot)
    /\ Fresh

NextBucket ==
    \/ FirehoseConnect
    \/ FirehoseSend
    \/ WriterRecv
    \/ InsertTrades
    \/ TradeEvent
    \/ UpsertCandle
    \/ CandleEvent
    \/ SetCursor

SpecBucket == InitBucket /\ [][NextBucket]_vars

\* ------------------------------------------------------------------ floats

\* An f64 other than zero, scaled down to MantissaBits significant bits: the
\* value m * 2^e with 2^(MantissaBits - 1) <= m < 2^MantissaBits. The
\* exponent range of f64 is never left by the quotients of two u64.
RECURSIVE RoundNearestEven(_, _, _)
\* The float nearest to (a / b) * 2^e for integers a, b > 0, ties to the even
\* mantissa: what `as f64`, `/` and the parsing of a literal all yield.
RoundNearestEven(a, b, e) ==
    IF a >= Pow2(MantissaBits) * b THEN RoundNearestEven(a, 2 * b, e + 1)
    ELSE IF a < Pow2(MantissaBits - 1) * b THEN RoundNearestEven(2 * a, b, e - 1)
    ELSE LET q == a \div b
             r == a % b
             m == IF 2 * r > b \/ (2 * r = b /\ q % 2 = 1) THEN q + 1 ELSE q
         IN  IF m = Pow2(MantissaBits)
             THEN [m |-> Pow2(MantissaBits - 1), e |-> e + 1]
             ELSE [m |-> m, e |-> e]

\* `x as f64` on a u64 x > 0.
AsF64(x) == RoundNearestEven(x, 1, 0)
\* x / y on two f64.
F64Div(x, y) == RoundNearestEven(x.m, y.m, x.e - y.e)
\* x < y on two f64.
F64Lt(x, y) ==
    IF x.e >= y.e THEN x.m * Pow2(x.e - y.e) < y.m
    ELSE x.m < y.m * Pow2(y.e - x.e)
\* The literal 0.1.
F64_0_1 == RoundNearestEven(1, 10, 0)

\* infer_swap_direction_raydium
infer_swap_direction_raydium(amount_in, amount_out) ==
    IF amount_in = 0 \/ amount_out = 0 THEN "buy"
    ELSE LET ratio == F64Div(AsF64(amount_out), AsF64(amount_in))
         IN  IF F64Lt(ratio, F64_0_1) THEN "sell" ELSE "buy"

\* infer_dlmm_direction with the comparison turned round (ratio > 0.1).
infer_dlmm_direction_gt(amount_in, amount_out) ==
    IF amount_in = 0 \/ amount_out = 0 THEN "buy"
    ELSE LET ratio == F64Div(AsF64(amount_out), AsF64(amount_in))
         IN  IF F64Lt(F64_0_1, ratio) THEN "sell" ELSE "buy"

\* infer_dlmm_direction
infer_dlmm_direction(amount_in, amount_out) ==
    IF amount_in = 0 \/ amount_out = 0 THEN "buy"
    ELSE LET ratio == F64Div(AsF64(amount_out), AsF64(amount_in))
         IN  IF F64Lt(ratio, F64_0_1) THEN "sell" ELSE "buy"

\* ------------------------------------------------------------------ bytes

\* Instruction data is a sequence of bytes. The bytes of a u64 payload hold
\* ByteBits bits each; a u64 is 8 of them, little-endian.
U8_MAX == Pow2(ByteBits) - 1
RAW_U64_MAX == Pow2(8 * ByteBits) - 1
RAW_I64_MAX == Pow2(8 * ByteBits - 1) - 1

RECURSIVE from_le_bytes(_)
\* u64::from_le_bytes
from_le_bytes(arr) ==
    IF arr = <<>> THEN 0
    ELSE arr[1] + Pow2(ByteBits) * from_le_bytes(Tail(arr))

RECURSIVE to_le_bytes(_, _)
\* The n low bytes of x, little-endian: how an instruction encodes a u64.
to_le_bytes(x, n) ==
    IF n = 0 THEN <<>>
    ELSE <<x % Pow2(ByteBits)>> \o to_le_bytes(x \div Pow2(ByteBits), n - 1)

\* `x as i64` on a decoded u64.
RawAsI64(u) == IF u > RAW_I64_MAX THEN u - Pow2(8 * ByteBits) ELSE u

\* Option<T> of the decoders: <<>> is None, <<x>> is Some(x).
\* &bytes[n..]; the caller has checked n <= len, else the slice panics.
SliceFrom(bytes, n) == SubSeq(bytes, n + 1, Len(bytes))
CanSlice(bytes, n) == n <= Len(bytes)

\* read_u64_le without the length test: copy_from_slice panics on a slice
\* shorter than 8 bytes.
read_u64_le_unchecked(bytes) ==
    IF Len(bytes) < 8 THEN [panic |-> TRUE, v |-> <<>>]
    ELSE [panic |-> FALSE, v |-> <<from_le_bytes(SubSeq(bytes, 1, 8))>>]

\* read_u64_le (the same function in each of the four parsers)
read_u64_le(bytes) ==
    IF Len(bytes) < 8 THEN [panic |-> FALSE, v |-> <<>>]
    ELSE [panic |-> FALSE, v |-> <<from_le_bytes(SubSeq(bytes, 1, 8))>>]

\* ------------------------------------------------------------------ parsers

SPL_TOKEN_PROGRAM_ID == "TokenkegQfeZyiNwAJbNbGKPFXCWuBvf9Ss623VQ5DA"
PUMP_PROGRAM_ID == "6EF8rrecthR5Dkzon8Nwu78hRvfCKubJ14M5uBEwF6P"
RAYDIUM_FUSION_PROGRAM_ID == "PhoeNiXZ8ByJGLkxNfZRnkUfjvmuYqLR89jjccR8DL7"
RAYDIUM_AMM_V3_PROGRAM_ID == "9KEPoZmtHkcsf9wXW4c6ZTwkdq4d5JZy2QTrPJWYC72"
RAYDIUM_AMM_V4_PROGRAM_ID == "675kPX9MHTjS2zt1qrNpOtSzVDfZtdztM2raKPLC5Jb"
METEORA_DLMM_PROGRAM_ID == "LBUZKhRxPF3XUpBCjp4YeC6BNhu2nqBDt16ymccEZLo"

INSTR_TRANSFER == 3
INSTR_TRANSFER_CHECKED == 12
INSTR_MINT_TO == 7
INSTR_MINT_TO_CHECKED == 13
INSTR_BURN == 8
INSTR_BURN_CHECKED == 14
DLMM_SWAP_V2 == 22

\* anchor_discriminator("buy"), anchor_discriminator("sell"): the first 8
\* bytes of SHA-256("global:buy") and of SHA-256("global:sell").
BUY_DISC == <<102, 6, 61, 18, 1, 218, 235, 234>>
SELL_DISC == <<51, 230, 133, 164, 1, 127, 131, 173>>

\* What a parser does with one instruction: it returns None, returns
\* Some(row), or panics.
Skip == [panic |-> FALSE, out |-> <<>>]
Panicked == [panic |-> TRUE, out |-> <<>>]
Emit(row) == [panic |-> FALSE, out |-> <<row>>]

\* ix.accounts.get(k).copied()? as usize, then
\* tx.message.account_keys.get(idx)?.clone(): <<>> when either get is None.
AccountKey(tx, ix, k) ==
    IF k >= Len(ix.accounts) THEN <<>>
    ELSE LET idx == ix.accounts[k + 1]
         IN  IF idx >= Len(tx.message.account_keys) THEN <<>>
             ELSE <<tx.message.account_keys[idx + 1]>>

\* The TokenTransfer row of models.rs as the parsers fill it.
TransferRow(block, tx, ix, mint, src_owner, dst_owner, src_ata, dst_ata, amount) ==
    [signature |-> tx.signature, slot |-> block.slot,
     block_time |-> block.block_time_unix, mint_pubkey |-> mint,
     source_owner |-> src_owner, dest_owner |-> dst_owner,
     source_ata |-> src_ata, dest_ata |-> dst_ata,
     amount |-> RawAsI64(amount),
     tx_index |-> tx.index, ix_index |-> ix.index]

\* parse_transfer (3): accounts [source, mint, dest, owner]; the mint is not
\* in the instruction.
parse_transfer(block, tx, ix, mint_whitelist) ==
    IF Len(ix.accounts) < 3 THEN Skip
    ELSE LET source_ata == AccountKey(tx, ix, 0)
             dest_ata == AccountKey(tx, ix, 2)
         IN  IF source_ata = <<>> \/ dest_ata = <<>> THEN Skip
             ELSE IF ~CanSlice(ix.data, 1) THEN Panicked
             ELSE LET amount == read_u64_le(SliceFrom(ix.data, 1))
                  IN  IF amount.panic THEN Panicked
                      ELSE IF amount.v = <<>> THEN Skip
                      ELSE IF mint_whitelist # {} THEN Skip
                      ELSE Emit(TransferRow(block, tx, ix, "unknown_mint",
                                            source_ata[1], dest_ata[1],
                                            source_ata[1], dest_ata[1],
                                            amount.v[1]))

\* parse_transfer_checked without the whitelist test.
parse_transfer_checked_unfiltered(block, tx, ix, mint_whitelist) ==
    IF Len(ix.accounts) < 3 \/ Len(ix.data) < 10 THEN Skip
    ELSE LET source_ata == AccountKey(tx, ix, 0)
             mint_pubkey == AccountKey(tx, ix, 1)
             dest_ata == AccountKey(tx, ix, 2)
         IN  IF source_ata = <<>> \/ mint_pubkey = <<>> \/ dest_ata = <<>>
             THEN Skip
             ELSE LET amount == read_u64_le(SliceFrom(ix.data, 1))
                  IN  IF amount.panic THEN Panicked
                      ELSE IF amount.v = <<>> THEN Skip
                      ELSE Emit(TransferRow(block, tx, ix, mint_pubkey[1],
                                            source_ata[1], dest_ata[1],
                                            source_ata[1], dest_ata[1],
                                            amount.v[1]))

\* parse_transfer_checked (12): accounts [source, mint, dest, owner].
parse_transfer_checked(block, tx, ix, mint_whitelist) ==
    IF Len(ix.accounts) < 3 \/ Len(ix.data) < 10 THEN Skip
    ELSE LET source_ata == AccountKey(tx, ix, 0)
             mint_pubkey == AccountKey(tx, ix, 1)
             dest_ata == AccountKey(tx, ix, 2)
         IN  IF source_ata = <<>> \/ mint_pubkey = <<>> \/ dest_ata = <<>>
             THEN Skip
             ELSE IF mint_whitelist # {} /\ mint_pubkey[1] \notin mint_whitelist
             THEN Skip
             ELSE LET amount == read_u64_le(SliceFrom(ix.data, 1))
                  IN  IF amount.panic THEN Panicked
                      ELSE IF amount.v = <<>> THEN Skip
                      ELSE Emit(TransferRow(block, tx, ix, mint_pubkey[1],
                                            source_ata[1], dest_ata[1],
                                            source_ata[1], dest_ata[1],
                                            amount.v[1]))

\* parse_mint_to (7) and parse_mint_to_checked (13), which differ in the
\* data length they require: accounts [mint, dest, authority].
MintTo(block, tx, ix, mint_whitelist, min_len) ==
    IF Len(ix.accounts) < 2 \/ Len(ix.data) < min_len THEN Skip
    ELSE LET mint_pubkey == AccountKey(tx, ix, 0)
             dest_ata == AccountKey(tx, ix, 1)
         IN  IF mint_pubkey = <<>> \/ dest_ata = <<>> THEN Skip
             ELSE IF mint_whitelist # {} /\ mint_pubkey[1] \notin mint_whitelist
             THEN Skip
             ELSE LET amount == read_u64_le(SliceFrom(ix.data, 1))
                  IN  IF amount.panic THEN Panicked
                      ELSE IF amount.v = <<>> THEN Skip
                      ELSE Emit(TransferRow(block, tx, ix, mint_pubkey[1],
                                            "system", dest_ata[1],
                                            "system", dest_ata[1],
                                            amount.v[1]))

parse_mint_to(block, tx, ix, mint_whitelist) ==
    MintTo(block, tx, ix, mint_whitelist, 9)
parse_mint_to_checked(block, tx, ix, mint_whitelist) ==
    MintTo(block, tx, ix, mint_whitelist, 10)

\* A burn read with the account layout of MintTo: [mint, source].
BurnMintFirst(block, tx, ix, mint_whitelist, min_len) ==
    IF Len(ix.accounts) < 2 \/ Len(ix.data) < min_len THEN Skip
    ELSE LET mint_pubkey == AccountKey(tx, ix, 0)
             source_ata == AccountKey(tx, ix, 1)
         IN  IF source_ata = <<>> \/ mint_pubkey = <<>> THEN Skip
             ELSE IF mint_whitelist # {} /\ mint_pubkey[1] \notin mint_whitelist
             THEN Skip
             ELSE LET amount == read_u64_le(SliceFrom(ix.data, 1))
                  IN  IF amount.panic THEN Panicked
                      ELSE IF amount.v = <<>> THEN Skip
                      ELSE Emit(TransferRow(block, tx, ix, mint_pubkey[1],
                                            source_ata[1], "burn",
                                            source_ata[1], "burn",
                                            amount.v[1]))

\* parse_burn (8) and parse_burn_checked (14): accounts [source, mint,
\* owner].
Burn(block, tx, ix, mint_whitelist, min_len) ==
    IF Len(ix.accounts) < 2 \/ Len(ix.data) < min_len THEN Skip
    ELSE LET source_ata == AccountKey(tx, ix, 0)
             mint_pubkey == AccountKey(tx, ix, 1)
         IN  IF source_ata = <<>> \/ mint_pubkey = <<>> THEN Skip
             ELSE IF mint_whitelist # {} /\ mint_pubkey[1] \notin mint_whitelist
             THEN Skip
             ELSE LET amount == read_u64_le(SliceFrom(ix.data, 1))
                  IN  IF amount.panic THEN Panicked
                      ELSE IF amount.v = <<>> THEN Skip
                      ELSE Emit(TransferRow(block, tx, ix, mint_pubkey[1],
                                            source_ata[1], "burn",
                                            source_ata[1], "burn",
                                            amount.v[1]))

parse_burn(block, tx, ix, mint_whitelist) ==
    Burn(block, tx, ix, mint_whitelist, 9)
parse_burn_checked(block, tx, ix, mint_whitelist) ==
    Burn(block, tx, ix, mint_whitelist, 10)

\* parse_spl_transfer: the dispatch on data[0].
parse_spl(block, tx, ix, mint_whitelist) ==
    IF ix.data = <<>> THEN Skip
    ELSE LET instr_type == ix.data[1]
         IN  CASE instr_type = INSTR_TRANSFER ->
                   parse_transfer(block, tx, ix, mint_whitelist)
               [] instr_type = INSTR_TRANSFER_CHECKED ->
                   parse_transfer_checked(block, tx, ix, mint_whitelist)
               [] instr_type = INSTR_MINT_TO ->
                   parse_mint_to(block, tx, ix, mint_whitelist)
               [] instr_type = INSTR_MINT_TO_CHECKED ->
                   parse_mint_to_checked(block, tx, ix, mint_whitelist)
               [] instr_type = INSTR_BURN ->
                   parse_burn(block, tx, ix, mint_whitelist)
               [] instr_type = INSTR_BURN_CHECKED ->
                   parse_burn_checked(block, tx, ix, mint_whitelist)
               [] OTHER -> Skip

\* The BondingCurveTrade row of models.rs as the three trade parsers fill it
\* from the two decoded u64 and the u64 price.
TradeRow(slot, block_time, tx, ix, mint, trader, side, token_amount, sol_amount, price) ==
    [signature |-> tx.signature, slot |-> slot, block_time |-> block_time,
     mint_pubkey |-> mint, trader |-> trader, side |-> side,
     token_amount |-> RawAsI64(token_amount),
     sol_amount |-> RawAsI64(sol_amount),
     price_nanos_per_token |-> RawAsI64(price),
     tx_index |-> tx.index, ix_index |-> ix.index]

\* pump_mint_and_user: mint at accounts[2], user at accounts[6].
pump_mint_and_user(tx, ix) ==
    IF Len(ix.accounts) < 7 THEN <<>>
    ELSE LET mint == AccountKey(tx, ix, 2)
             user == AccountKey(tx, ix, 6)
         IN  IF mint = <<>> \/ user = <<>> THEN <<>>
             ELSE <<[mint |-> mint[1], user |-> user[1]]>>

\* parse_buy and parse_sell, which differ in the side they record:
\* args = data[8..] holds amount and maxSolCost (minSolOutput).
PumpTrade(slot, block_time, tx, ix, side) ==
    LET mu == pump_mint_and_user(tx, ix)
    IN  IF mu = <<>> THEN Skip
        ELSE IF ~CanSlice(ix.data, 8) THEN Panicked
        ELSE LET args == SliceFrom(ix.data, 8)
                 token_amount == read_u64_le(args)
             IN  IF token_amount.panic THEN Panicked
                 ELSE IF token_amount.v = <<>> THEN Skip
                 ELSE IF ~CanSlice(args, 8) THEN Panicked
                 ELSE LET sol == read_u64_le(SliceFrom(args, 8))
                      IN  IF sol.panic THEN Panicked
                          ELSE IF sol.v = <<>> THEN Skip
                          ELSE LET price == IF token_amount.v[1] = 0 THEN 0
                                            ELSE sol.v[1] \div token_amount.v[1]
                               IN  Emit(TradeRow(slot, block_time, tx, ix,
                                                 mu[1].mint, mu[1].user, side,
                                                 token_amount.v[1], sol.v[1],
                                                 price))

parse_buy(slot, block_time, tx, ix) ==
    PumpTrade(slot, block_time, tx, ix, "buy")
parse_sell(slot, block_time, tx, ix) ==
    PumpTrade(slot, block_time, tx, ix, "sell")

\* The body of the loop of extract_pump_trades_from_block for an
\* instruction of the pump program.
parse_pump(slot, block_time, tx, ix) ==
    IF Len(ix.data) < 8 THEN Skip
    ELSE LET disc == SubSeq(ix.data, 1, 8)
         IN  IF disc = BUY_DISC THEN parse_buy(slot, block_time, tx, ix)
             ELSE IF disc = SELL_DISC THEN parse_sell(slot, block_time, tx, ix)
             ELSE Skip

is_raydium_program(program_id) ==
    program_id \in {RAYDIUM_FUSION_PROGRAM_ID, RAYDIUM_AMM_V3_PROGRAM_ID,
                    RAYDIUM_AMM_V4_PROGRAM_ID}

\* &trader[..trader.len().min(8)]: account keys are base58 text; the keys of
\* the model are at most 8 characters long but for this one.
Prefix8(trader) == IF trader = "Trader0123" THEN "Trader01" ELSE trader

\* parse_raydium_swap: data = [discriminator, amount_in, amount_out], the
\* trader at accounts[0], the mint a placeholder built from the trader.
parse_raydium_swap(slot, block_time, tx, ix) ==
    IF Len(ix.data) < 17 THEN Skip
    ELSE LET amount_in == read_u64_le(SliceFrom(ix.data, 1))
             amount_out == read_u64_le(SliceFrom(ix.data, 9))
         IN  IF amount_in.panic \/ amount_out.panic THEN Panicked
             ELSE IF amount_in.v = <<>> \/ amount_out.v = <<>> THEN Skip
             ELSE IF Len(ix.accounts) < 3 THEN Skip
             ELSE LET trader == AccountKey(tx, ix, 0)
                      direction == infer_swap_direction_raydium(amount_in.v[1],
                                                                amount_out.v[1])
                      price == IF amount_out.v[1] = 0 THEN 0
                               ELSE amount_in.v[1] \div amount_out.v[1]
                  IN  IF trader = <<>> THEN Skip
                      ELSE Emit(TradeRow(slot, block_time, tx, ix,
                                         <<"raydium_pool_", Prefix8(trader[1])>>,
                                         trader[1], direction,
                                         amount_out.v[1], amount_in.v[1],
                                         price))

\* infer_dlmm_version
infer_dlmm_version(ix, discriminator) ==
    IF Len(ix.accounts) > 8 \/ discriminator = DLMM_SWAP_V2 THEN 2 ELSE 1

\* parse_meteora_swap: data = [discriminator, amount_in, amount_out, ...],
\* the trader at accounts[0], the pool at accounts[1] recorded as the mint.
\* The version-specific metadata is read and dropped.
parse_meteora_swap(slot, block_time, tx, ix) ==
    IF Len(ix.data) < 17 THEN Skip
    ELSE LET amount_in == read_u64_le(SliceFrom(ix.data, 1))
             amount_out == read_u64_le(SliceFrom(ix.data, 9))
         IN  IF amount_in.panic \/ amount_out.panic THEN Panicked
             ELSE IF amount_in.v = <<>> \/ amount_out.v = <<>> THEN Skip
             ELSE LET trader == AccountKey(tx, ix, 0)
                      pool_id == AccountKey(tx, ix, 1)
                      direction == infer_dlmm_direction(amount_in.v[1],
                                                        amount_out.v[1])
                      price == IF amount_out.v[1] = 0 THEN 0
                               ELSE amount_in.v[1] \div amount_out.v[1]
                  IN  IF trader = <<>> \/ pool_id = <<>> THEN Skip
                      ELSE Emit(TradeRow(slot, block_time, tx, ix,
                                         pool_id[1], trader[1], direction,
                                         amount_out.v[1], amount_in.v[1],
                                         price))

RECURSIVE Instructions(_)
\* for tx in &block.transactions { for ix in &tx.instructions { .. } }: the
\* instructions of a sequence of transactions in the order of the two loops.
Instructions(transactions) ==
    IF transactions = <<>> THEN <<>>
    ELSE [k \in 1..Len(Head(transactions).instructions) |->
            [tx |-> Head(transactions),
             ix |-> Head(transactions).instructions[k]]]
         \o Instructions(Tail(transactions))

RECURSIVE CollectNewestFirst(_)
\* The Vec with every row inserted at the front.
CollectNewestFirst(results) ==
    IF results = <<>> THEN Skip
    ELSE IF Head(results).panic THEN Panicked
    ELSE LET rest == CollectNewestFirst(Tail(results))
         IN  IF rest.panic THEN Panicked
             ELSE [panic |-> FALSE, out |-> rest.out \o Head(results).out]

RECURSIVE Collect(_)
\* The Vec the loop has pushed to when it ends; a panic in one parse ends the
\* loop and the task with it.
Collect(results) ==
    IF results = <<>> THEN Skip
    ELSE IF Head(results).panic THEN Panicked
    ELSE LET rest == Collect(Tail(results))
         IN  IF rest.panic THEN Panicked
             ELSE [panic |-> FALSE, out |-> Head(results).out \o rest.out]

\* extract_transfers_from_block on a block of transactions
extract_transfers(block, mint_whitelist) ==
    LET I == Instructions(block.transactions)
    IN  Collect([k \in 1..Len(I) |->
                   IF I[k].ix.program_id # SPL_TOKEN_PROGRAM_ID THEN Skip
                   ELSE parse_spl(block, I[k].tx, I[k].ix, mint_whitelist)])

\* extract_pump_trades_from_block on a block of transactions
extract_pump_trades(block) ==
    LET I == Instructions(block.transactions)
    IN  Collect([k \in 1..Len(I) |->
                   IF I[k].ix.program_id # PUMP_PROGRAM_ID THEN Skip
                   ELSE parse_pump(block.slot, block.block_time_unix,
                                   I[k].tx, I[k].ix)])

\* extract_raydium_trades_from_block on a block of transactions
extract_raydium_trades(block) ==
    LET I == Instructions(block.transactions)
    IN  Collect([k \in 1..Len(I) |->
                   IF ~is_raydium_program(I[k].ix.program_id) THEN Skip
                   ELSE parse_raydium_swap(block.slot, block.block_time_unix,
                                           I[k].tx, I[k].ix)])

\* extract_meteora_trades_from_block on a block of transactions
extract_meteora_trades(block) ==
    LET I == Instructions(block.transactions)
    IN  Collect([k \in 1..Len(I) |->
                   IF I[k].ix.program_id # METEORA_DLMM_PROGRAM_ID THEN Skip
                   ELSE parse_meteora_swap(block.slot, block.block_time_unix,
                                           I[k].tx, I[k].ix)])

\* ------------------------------------------------------------------ decode

\* The blocks handed to the four extractors. Payload: the bytes that follow
\* the discriminator of a swap of amounts 5 and 3, then version metadata.
Payload == to_le_bytes(5, 8) \o to_le_bytes(3, 8) \o <<1, 0, 0, 0, 1, 0, 0, 0, 1>>
Take(s, n) == SubSeq(s, 1, IF n < Len(s) THEN n ELSE Len(s))

\* Eight bytes that are the discriminator of no pump instruction.
OTHER_DISC == <<102, 6, 61, 18, 1, 218, 235, 0>>
SYSTEM_PROGRAM_ID == "11111111111111111111111111111111"

SplData ==
    { Take(<<d>> \o Payload, n) :
        d \in {INSTR_TRANSFER, INSTR_TRANSFER_CHECKED, INSTR_MINT_TO,
               INSTR_MINT_TO_CHECKED, INSTR_BURN, INSTR_BURN_CHECKED, 0, 9},
        n \in 0..11 }
PumpData ==
    { Take(disc \o Payload, n) :
        disc \in {BUY_DISC, SELL_DISC, OTHER_DISC},
        n \in {0, 7, 8, 15, 16, 23, 24, 25} }
SwapData ==
    { Take(<<d>> \o Payload, n) :
        d \in {9, 10, 11, DLMM_SWAP_V2, 0},
        n \in {0, 1, 9, 16, 17, 18, 21, 25, 26} }

\* Program and data of the instruction under test: every discriminator, known
\* or not, at every length around the ones the parsers test for.
ProgramData ==
    { [program_id |-> SPL_TOKEN_PROGRAM_ID, data |-> d] : d \in SplData }
    \cup { [program_id |-> PUMP_PROGRAM_ID, data |-> d] : d \in PumpData }
    \cup { [program_id |-> p, data |-> d] :
             p \in {RAYDIUM_FUSION_PROGRAM_ID, RAYDIUM_AMM_V3_PROGRAM_ID,
                    RAYDIUM_AMM_V4_PROGRAM_ID, METEORA_DLMM_PROGRAM_ID},
             d \in SwapData }
    \cup { [program_id |-> SYSTEM_PROGRAM_ID,
            data |-> Take(<<INSTR_TRANSFER_CHECKED>> \o Payload, 10)] }

\* Account-index lists: too few, enough, and indexes past the end of
\* account_keys.
AccountLists ==
    { <<>>, <<0>>, <<0, 1>>, <<1, 0>>, <<0, 1, 2>>, <<1, 0, 2>>, <<0, 1, 9>>,
      <<9, 1, 2>>, <<0, 9, 2>>, <<0, 1, 2, 3, 4, 5, 6>>,
      <<0, 1, 2, 3, 4, 5, 9>>, <<0, 1, 2, 3, 4, 5, 6, 7, 8>> }
KeyLists ==
    { <<>>, <<"A", "M", "B">>,
      <<"Trader0123", "M", "B", "X", "C", "D", "U">> }
Whitelists == {{}, {"M"}, {"X"}}

Instruction(program_id, accounts, data, index) ==
    [program_id |-> program_id, accounts |-> accounts, data |-> data,
     index |-> index]
Transaction(signature, index, account_keys, instructions) ==
    [signature |-> signature, index |-> index,
     message |-> [account_keys |-> account_keys],
     instructions |-> instructions]

\* A transaction of four well-formed instructions, one per decoder.
SiblingTx(index) ==
    Transaction("sig_sibling", index,
                <<"A", "M", "B", "P", "C", "D", "U">>,
                << Instruction(SPL_TOKEN_PROGRAM_ID, <<0, 1, 2>>,
                               <<INSTR_TRANSFER_CHECKED>> \o to_le_bytes(6, 8)
                               \o <<1>>, 0),
                   Instruction(PUMP_PROGRAM_ID, <<0, 1, 2, 3, 4, 5, 6>>,
                               BUY_DISC \o to_le_bytes(2, 8)
                               \o to_le_bytes(9, 8), 1),
                   Instruction(RAYDIUM_AMM_V4_PROGRAM_ID, <<6, 1, 3>>,
                               <<9>> \o to_le_bytes(9, 8) \o to_le_bytes(2, 8),
                               2),
                   Instruction(METEORA_DLMM_PROGRAM_ID, <<6, 3>>,
                               <<11>> \o to_le_bytes(9, 8) \o to_le_bytes(2, 8),
                               3) >>)

RawBlock(transactions) ==
    [slot |-> 7, block_time_unix |-> Some(90), transactions |-> transactions]

\* One instruction of any shape, in a transaction before or after the
\* well-formed one.
ShapeBlock(pd, accounts, keys, first) ==
    RawBlock(IF first
             THEN <<Transaction("sig", 0, keys,
                                <<Instruction(pd.program_id, accounts,
                                              pd.data, 0)>>),
                    SiblingTx(1)>>
             ELSE <<SiblingTx(0),
                    Transaction("sig", 1, keys,
                                <<Instruction(pd.program_id, accounts,
                                              pd.data, 0)>>)>>)

\* u64 values around 0, 2^63 and 2^64.
EdgeValues ==
    0..15 \cup {RAW_I64_MAX - 1, RAW_I64_MAX, RAW_I64_MAX + 1,
                RAW_I64_MAX + 2, RAW_U64_MAX - 1, RAW_U64_MAX}

SplVariants ==
    {INSTR_TRANSFER, INSTR_TRANSFER_CHECKED, INSTR_MINT_TO,
     INSTR_MINT_TO_CHECKED, INSTR_BURN, INSTR_BURN_CHECKED}

\* One well-formed SPL instruction of variant d with the given amount.
AmountBlock(d, amount) ==
    RawBlock(<<Transaction("sig", 0, <<"A", "M", "B">>,
                           <<Instruction(SPL_TOKEN_PROGRAM_ID, <<0, 1, 2>>,
                                         <<d>> \o to_le_bytes(amount, 8)
                                         \o <<1>>, 0)>>)>>)

TradeKinds ==
    { [program_id |-> PUMP_PROGRAM_ID, disc |-> BUY_DISC],
      [program_id |-> PUMP_PROGRAM_ID, disc |-> SELL_DISC],
      [program_id |-> RAYDIUM_AMM_V4_PROGRAM_ID, disc |-> <<9>>],
      [program_id |-> METEORA_DLMM_PROGRAM_ID, disc |-> <<11>>] }

\* One well-formed trade instruction with the two u64 a and b as payload.
TradeBlock(pd, a, b) ==
    RawBlock(<<Transaction("sig", 0,
                           <<"Trader0123", "M", "B", "X", "C", "D", "U">>,
                           <<Instruction(pd.program_id,
                                         <<0, 1, 2, 3, 4, 5, 6>>,
                                         pd.disc \o to_le_bytes(a, 8)
                                         \o to_le_bytes(b, 8), 0)>>)>>)

OrderKinds == {"spl", "pump", "amm", "dlmm", "short"}

\* A well-formed instruction of one of the four decoders, or an SPL
\* instruction cut short, as the instruction number `index` of its
\* transaction.
OrderIx(kind, index) ==
    CASE kind = "spl" ->
           Instruction(SPL_TOKEN_PROGRAM_ID, <<0, 1, 2>>,
                       <<INSTR_TRANSFER_CHECKED>> \o to_le_bytes(6, 8) \o <<1>>,
                       index)
      [] kind = "pump" ->
           Instruction(PUMP_PROGRAM_ID, <<0, 1, 2, 3, 4, 5, 6>>,
                       BUY_DISC \o to_le_bytes(2, 8) \o to_le_bytes(9, 8), index)
      [] kind = "amm" ->
           Instruction(RAYDIUM_AMM_V4_PROGRAM_ID, <<6, 1, 3>>,
                       <<9>> \o to_le_bytes(9, 8) \o to_le_bytes(2, 8), index)
      [] kind = "dlmm" ->
           Instruction(METEORA_DLMM_PROGRAM_ID, <<6, 3>>,
                       <<11>> \o to_le_bytes(9, 8) \o to_le_bytes(2, 8), index)
      [] kind = "short" ->
           Instruction(SPL_TOKEN_PROGRAM_ID, <<0, 1, 2>>,
                       <<INSTR_TRANSFER_CHECKED>>, index)

\* Two transactions of two instructions each, of any four kinds.
OrderBlock(k1, k2, k3, k4) ==
    RawBlock(<<Transaction("sig0", 0, <<"A", "M", "B", "P", "C", "D", "U">>,
                           <<OrderIx(k1, 0), OrderIx(k2, 1)>>),
               Transaction("sig1", 1, <<"A", "M", "B", "P", "C", "D", "U">>,
                           <<OrderIx(k3, 0), OrderIx(k4, 1)>>)>>)

\* The writer has dequeued dec.block; config.firehose.mint_whitelist is
\* dec.mint_whitelist.
Dequeued(block, mint_whitelist) ==
    [pc |-> "extract", block |-> block, mint_whitelist |-> mint_whitelist,
     transfers |-> <<>>, pump_trades |-> <<>>, raydium_trades |-> <<>>,
     meteora_trades |-> <<>>]

InitDecode ==
    /\ chain = SimulatedChain
    /\ config_from_slot = None
    /\ config_firehose = DefaultFirehoseConfig
    /\ api = NoApi
    /\ \/ \E pd \in ProgramData, accounts \in AccountLists, keys \in KeyLists,
             first \in BOOLEAN, w \in Whitelists :
             dec = Dequeued(ShapeBlock(pd, accounts, keys, first), w)
       \/ \E d \in SplVariants, amount \in 0..RAW_U64_MAX :
             dec = Dequeued(AmountBlock(d, amount), {})
       \/ \E pd \in TradeKinds, a \in EdgeValues, b \in EdgeValues :
             dec = Dequeued(TradeBlock(pd, a, b), {})
       \/ \E k1 \in OrderKinds, k2 \in OrderKinds, k3 \in OrderKinds,
             k4 \in OrderKinds :
             dec = Dequeued(OrderBlock(k1, k2, k3, k4), {})
    /\ proc = "down"
    /\ firehose = Off
    /\ Fresh

\* The first four statements of the writer's loop body: the four extractors
\* on the dequeued block. A panic in one of them ends the writer task.
Extract ==
    /\ dec.pc = "extract"
    /\ LET transfers == extract_transfers(dec.block, dec.mint_whitelist)
           pump_trades == extract_pump_trades(dec.block)
           raydium_trades == extract_raydium_trades(dec.block)
           meteora_trades == extract_meteora_trades(dec.block)
       IN  dec' = IF \/ transfers.panic \/ pump_trades.panic
                     \/ raydium_trades.panic \/ meteora_trades.panic
                  THEN [dec EXCEPT !.pc = "panicked"]
                  ELSE [dec EXCEPT !.pc = "extracted",
                                   !.transfers = transfers.out,
                                   !.pump_trades = pump_trades.out,
                                   !.raydium_trades = raydium_trades.out,
                                   !.meteora_trades = meteora_trades.out]
    /\ UNCHANGED <<chain, config_from_slot, config_firehose, api, db_vars,
                   proc, block_rx, writer, firehose, faults, restarts,
                   hist_vars, perm, trace>>

SpecDecode == InitDecode /\ [][Extract]_vars

\* One AMM and one DLMM instruction with the same two amounts.
DirectionBlock(a, b) ==
    RawBlock(<<Transaction("sig", 0, <<"A", "M", "B">>,
                           << Instruction(RAYDIUM_AMM_V4_PROGRAM_ID,
                                          <<0, 1, 2>>,
                                          <<9>> \o to_le_bytes(a, 8)
                                          \o to_le_bytes(b, 8), 0),
                              Instruction(METEORA_DLMM_PROGRAM_ID,
                                          <<0, 1, 2>>,
                                          <<11>> \o to_le_bytes(a, 8)
                                          \o to_le_bytes(b, 8), 1) >>)>>)

\* Every pair of u64 amounts.
InitDirection ==
    /\ chain = SimulatedChain
    /\ config_from_slot = None
    /\ config_firehose = DefaultFirehoseConfig
    /\ api = NoApi
    /\ \E a \in 0..RAW_U64_MAX, b \in 0..RAW_U64_MAX :
          dec = Dequeued(DirectionBlock(a, b), {})
    /\ proc = "down"
    /\ firehose = Off
    /\ Fresh

SpecDirection == InitDirection /\ [][Extract]_vars

\* ------------------------------------------------------------------ api

\* indexer-api: the LISTEN/NOTIFY bridge, the broadcast channel and one
\* handle_ws loop per websocket.
Subscribers == 1..MaxSubscribers

\* Payloads of notifications on the channel indexer_events: three that
\* insert_event builds, and one sent by another database session that is
\* no JSON.
P_TRANSFERS_M == "{\"topic\":\"transfers\",\"mint_pubkey\":\"M\",\"payload\":{}}"
P_CANDLES_M == "{\"topic\":\"candles\",\"mint_pubkey\":\"M\",\"payload\":{}}"
P_TRANSFERS_X == "{\"topic\":\"transfers\",\"mint_pubkey\":\"X\",\"payload\":{}}"
P_NOT_JSON == "hello"
Payloads == {P_TRANSFERS_M, P_CANDLES_M, P_TRANSFERS_X, P_NOT_JSON}

\* serde_json::from_str::<JsonValue>(&payload), then
\* v.get("topic").and_then(as_str).unwrap_or("") and
\* v.get("mint_pubkey").and_then(as_str): <<>> is None.
from_str(payload) ==
    CASE payload = P_TRANSFERS_M ->
            [ok |-> TRUE, topic |-> "transfers", mint |-> <<"M">>]
      [] payload = P_CANDLES_M ->
            [ok |-> TRUE, topic |-> "candles", mint |-> <<"M">>]
      [] payload = P_TRANSFERS_X ->
            [ok |-> TRUE, topic |-> "transfers", mint |-> <<"X">>]
      [] OTHER -> [ok |-> FALSE, topic |-> "", mint |-> <<>>]

\* What a subscribe message can carry: "topics" absent or an array of
\* strings, "mint" absent or a string.
TopicFilters == {<<>>, <<{"transfers"}>>}
MintFilters == {<<>>, <<"M">>}

\* A websocket that has not connected yet.
\* st: "open" in the loop of handle_ws, "closed" when the loop ended on the
\* client's side, "failed" when it ended on a failed send. lost: the messages
\* the receiver was told it skipped (the n of Lagged(n)).
\* acks: the acknowledgements sent; subscribed: the last subscribe message;
\* others: the client messages that were no subscribe message.
Offline == [st |-> "off", rx |-> 0, allowed_topics |-> <<>>,
            allowed_mint |-> <<>>, sent |-> <<>>, acks |-> 0, lost |-> 0,
            subscribed |-> <<>>, others |-> 0]

RECURSIVE Subscribes(_)
\* Subscribe messages received from the clients 1..n so far.
Subscribes(n) == IF n = 0 THEN 0 ELSE api.subs[n].acks + Subscribes(n - 1)

RECURSIVE OtherMessages(_)
\* Other client messages received from the clients 1..n so far.
OtherMessages(n) ==
    IF n = 0 THEN 0 ELSE api.subs[n].others + OtherMessages(n - 1)

\* The oldest message the broadcast channel still retains.
Oldest == IF Len(api.log) > BusCap THEN Len(api.log) - BusCap + 1 ELSE 1

ApiFrame ==
    UNCHANGED <<chain, config_from_slot, config_firehose, dec, db_vars, proc,
                block_rx, writer, firehose, faults, restarts, hist_vars, perm,
                trace>>

\* A bridge that puts each payload in front of those the channel holds.
BridgeRecvNewestFirst ==
    /\ Len(api.log) < MaxEvents
    /\ \E payload \in Payloads :
          api' = [api EXCEPT !.log = <<payload>> \o @,
                             !.arrived = Append(@, payload)]
    /\ ApiFrame

\* The bridge: listener.recv() yields a notification and its payload goes on
\* the broadcast channel. arrived: the payloads of the notifications in the
\* order the listener yielded them.
BridgeRecv ==
    /\ Len(api.log) < MaxEvents
    /\ \E payload \in Payloads :
          api' = [api EXCEPT !.log = Append(@, payload),
                             !.arrived = Append(@, payload)]
    /\ ApiFrame

\* ws_handler / handle_ws up to the loop: events_tx.subscribe() and no
\* filters.
WsConnect(s) ==
    /\ api.subs[s].st = "off"
    /\ api' = [api EXCEPT !.subs[s] =
                 [Offline EXCEPT !.st = "open", !.rx = Len(api.log) + 1]]
    /\ ApiFrame

\* A subscribe message that replaces a filter only when it carries the
\* field.
WsSubscribeMerges(s) ==
    /\ api.subs[s].st = "open"
    /\ Subscribes(MaxSubscribers) < MaxSubscribes
    /\ \E topics \in TopicFilters, mint \in MintFilters :
          api' = [api EXCEPT !.subs[s].allowed_topics =
                                 IF topics = <<>> THEN @ ELSE topics,
                             !.subs[s].allowed_mint =
                                 IF mint = <<>> THEN @ ELSE mint,
                             !.subs[s].subscribed =
                                 <<[topics |-> topics, mint |-> mint]>>,
                             !.subs[s].acks = @ + 1]
    /\ ApiFrame

\* socket.recv() yields a subscribe message: both filters are replaced and
\* the acknowledgement is sent, a failure of that send being ignored.
WsSubscribe(s) ==
    /\ api.subs[s].st = "open"
    /\ Subscribes(MaxSubscribers) < MaxSubscribes
    /\ \E topics \in TopicFilters, mint \in MintFilters :
          api' = [api EXCEPT !.subs[s].allowed_topics = topics,
                             !.subs[s].allowed_mint = mint,
                             !.subs[s].subscribed =
                                 <<[topics |-> topics, mint |-> mint]>>,
                             !.subs[s].acks = @ + 1]
    /\ ApiFrame

\* socket.recv() yields a message that is no text, no JSON, or JSON whose
\* "type" is not "subscribe": nothing is done with it.
WsOther(s) ==
    /\ api.subs[s].st = "open"
    /\ OtherMessages(MaxSubscribers) < MaxOtherMessages
    /\ api' = [api EXCEPT !.subs[s].others = @ + 1]
    /\ ApiFrame

\* socket.recv() yields None or an error: break.
WsClose(s) ==
    /\ api.subs[s].st = "open"
    /\ api' = [api EXCEPT !.subs[s].st = "closed"]
    /\ ApiFrame

\* The filters of handle_ws on a payload that parsed.
Passes(sub, v) ==
    /\ sub.allowed_topics # <<>> => v.topic \in sub.allowed_topics[1]
    /\ sub.allowed_mint # <<>> => v.mint = sub.allowed_mint

\* rx.recv() yields Err(Lagged): continue; the receiver has moved to the
\* oldest retained message.
WsLagged(s) ==
    /\ api.subs[s].st = "open"
    /\ api.subs[s].rx < Oldest
    /\ api' = [api EXCEPT !.subs[s].rx = Oldest,
                          !.subs[s].lost = @ + Oldest - api.subs[s].rx]
    /\ ApiFrame

\* A failed send that ends every subscriber's loop.
WsEventClosesAll(s) ==
    /\ api.subs[s].st = "open"
    /\ api.subs[s].rx >= Oldest
    /\ api.subs[s].rx <= Len(api.log)
    /\ LET payload == api.log[api.subs[s].rx]
           v == from_str(payload)
       IN  \E send_ok \in BOOLEAN :
              api' = IF v.ok /\ ~Passes(api.subs[s], v)
                     THEN [api EXCEPT !.subs[s].rx = @ + 1]
                     ELSE IF send_ok
                     THEN [api EXCEPT !.subs[s].rx = @ + 1,
                                      !.subs[s].sent = Append(@, payload)]
                     ELSE [api EXCEPT !.subs =
                             [t \in Subscribers |->
                                [api.subs[t] EXCEPT !.st = "failed"]]]
    /\ ApiFrame

\* rx.recv() yields Ok(payload): the filters when the payload parses, then
\* socket.send, whose failure breaks the loop.
WsEvent(s) ==
    /\ api.subs[s].st = "open"
    /\ api.subs[s].rx >= Oldest
    /\ api.subs[s].rx <= Len(api.log)
    /\ LET payload == api.log[api.subs[s].rx]
           v == from_str(payload)
       IN  \E send_ok \in BOOLEAN :
              api' = IF v.ok /\ ~Passes(api.subs[s], v)
                     THEN [api EXCEPT !.subs[s].rx = @ + 1]
                     ELSE IF send_ok
                     THEN [api EXCEPT !.subs[s].rx = @ + 1,
                                      !.subs[s].sent = Append(@, payload)]
                     ELSE [api EXCEPT !.subs[s].rx = @ + 1,
                                      !.subs[s].st = "failed"]
    /\ ApiFrame

InitApi ==
    /\ chain = SimulatedChain
    /\ config_from_slot = None
    /\ config_firehose = DefaultFirehoseConfig
    /\ dec = NoDec
    /\ api = [log |-> <<>>, arrived |-> <<>>,
              subs |-> [s \in Subscribers |-> Offline]]
    /\ proc = "down"
    /\ firehose = Off
    /\ Fresh

NextApi ==
    \/ BridgeRecv
    \/ \E s \in Subscribers : WsConnect(s)
    \/ \E s \in Subscribers : WsSubscribe(s)
    \/ \E s \in Subscribers : WsClose(s)
    \/ \E s \in Subscribers : WsLagged(s)
    \/ \E s \in Subscribers : WsEvent(s)

SpecApi == InitApi /\ [][NextApi]_vars

\* One websocket client and every kind of message it can send.
NextClient ==
    \/ BridgeRecv
    \/ WsConnect(1)
    \/ WsSubscribe(1)
    \/ WsOther(1)
    \/ WsClose(1)
    \/ WsLagged(1)
    \/ WsEvent(1)

SpecClient == InitApi /\ [][NextClient]_vars

\* ------------------------------------------------------------------ layouts

\* The instruction layouts the parsers decode, stated on the instruction
\* itself: which accounts must resolve and how many bytes must be there.
InRange(tx, ix, k) ==
    /\ k < Len(ix.accounts)
    /\ ix.accounts[k + 1] < Len(tx.message.account_keys)
Resolve(tx, ix, k) == tx.message.account_keys[ix.accounts[k + 1] + 1]

\* An SPL instruction of one of the six variants with its accounts and its
\* payload (discriminator, u64 amount, and the decimals byte when checked).
SplComplete(tx, ix) ==
    /\ ix.data # <<>>
    /\ CASE ix.data[1] = INSTR_TRANSFER ->
              /\ Len(ix.data) >= 9 /\ Len(ix.accounts) >= 3
              /\ InRange(tx, ix, 0) /\ InRange(tx, ix, 2)
         [] ix.data[1] = INSTR_TRANSFER_CHECKED ->
              /\ Len(ix.data) >= 10 /\ Len(ix.accounts) >= 3
              /\ InRange(tx, ix, 0) /\ InRange(tx, ix, 1) /\ InRange(tx, ix, 2)
         [] ix.data[1] \in {INSTR_MINT_TO, INSTR_BURN} ->
              /\ Len(ix.data) >= 9 /\ Len(ix.accounts) >= 2
              /\ InRange(tx, ix, 0) /\ InRange(tx, ix, 1)
         [] ix.data[1] \in {INSTR_MINT_TO_CHECKED, INSTR_BURN_CHECKED} ->
              /\ Len(ix.data) >= 10 /\ Len(ix.accounts) >= 2
              /\ InRange(tx, ix, 0) /\ InRange(tx, ix, 1)
         [] OTHER -> FALSE

\* The mint account of a complete SPL instruction that carries one:
\* accounts[0] for the two MintTo variants, accounts[1] for the others.
MintAccount(tx, ix) ==
    IF ix.data[1] \in {INSTR_MINT_TO, INSTR_MINT_TO_CHECKED}
    THEN Resolve(tx, ix, 0)
    ELSE Resolve(tx, ix, 1)

PumpComplete(tx, ix) ==
    /\ Len(ix.data) >= 24
    /\ SubSeq(ix.data, 1, 8) \in {BUY_DISC, SELL_DISC}
    /\ Len(ix.accounts) >= 7
    /\ InRange(tx, ix, 2) /\ InRange(tx, ix, 6)

RaydiumComplete(tx, ix) ==
    /\ Len(ix.data) >= 17
    /\ Len(ix.accounts) >= 3
    /\ InRange(tx, ix, 0)

MeteoraComplete(tx, ix) ==
    /\ Len(ix.data) >= 17
    /\ InRange(tx, ix, 0) /\ InRange(tx, ix, 1)

Complete(tx, ix) ==
    CASE ix.program_id = SPL_TOKEN_PROGRAM_ID -> SplComplete(tx, ix)
      [] ix.program_id = PUMP_PROGRAM_ID -> PumpComplete(tx, ix)
      [] is_raydium_program(ix.program_id) -> RaydiumComplete(tx, ix)
      [] ix.program_id = METEORA_DLMM_PROGRAM_ID -> MeteoraComplete(tx, ix)
      [] OTHER -> FALSE

\* The rows an extractor emitted for the instruction ix of tx.
RowsOf(rows, tx, ix) ==
    { i \in 1..Len(rows) :
        rows[i].tx_index = tx.index /\ rows[i].ix_index = ix.index }

\* The output of the extractor that decodes the program of ix.
OutputFor(ix) ==
    CASE ix.program_id = SPL_TOKEN_PROGRAM_ID -> dec.transfers
      [] ix.program_id = PUMP_PROGRAM_ID -> dec.pump_trades
      [] is_raydium_program(ix.program_id) -> dec.raydium_trades
      [] ix.program_id = METEORA_DLMM_PROGRAM_ID -> dec.meteora_trades
      [] OTHER -> <<>>

\* The whitelist lets the complete SPL instruction ix through.
Listed(tx, ix, mint_whitelist) ==
    \/ mint_whitelist = {}
    \/ /\ ix.data[1] # INSTR_TRANSFER
       /\ MintAccount(tx, ix) \in mint_whitelist


\* ------------------------------------------------------------------ claims

Bal(b, w, m) == IF <<w, m>> \in DOMAIN b THEN b[<<w, m>>] ELSE 0

RECURSIVE Net(_, _, _, _)
\* What the transfers ts[i..] owe to (w, m): amounts received less amounts sent.
Net(ts, i, w, m) ==
    IF i > Len(ts) THEN 0
    ELSE (IF ts[i].mint_pubkey = m /\ ts[i].dest_owner = w
          THEN ts[i].amount ELSE 0)
         - (IF ts[i].mint_pubkey = m /\ ts[i].source_owner = w
            THEN ts[i].amount ELSE 0)
         + Net(ts, i + 1, w, m)

RECURSIVE SumOver(_, _, _)
SumOver(b, ws, m) ==
    IF ws = {} THEN 0
    ELSE LET w == CHOOSE x \in ws : TRUE
         IN  Bal(b, w, m) + SumOver(b, ws \ {w}, m)

NoDup(rows) ==
    \A i, j \in 1..Len(rows) :
        (rows[i].signature = rows[j].signature
         /\ rows[i].ix_index = rows[j].ix_index) => i = j

\* The step in which the writer writes the cursor.
CursorWritten ==
    /\ Running("set_cursor")
    /\ proc' = "up"
    /\ faults' = faults
    /\ writer'.pc = "recv"

\* A step in which insert_transfers, update_balances_for_transfers or
\* insert_bonding_curve_trades returns an error to the writer.
StepFailed ==
    /\ proc = "up"
    /\ proc' = "up"
    /\ writer' # writer
    /\ \/ /\ writer.pc \in {"ins_transfers", "upd_debit", "upd_credit",
                            "ins_trades"}
          /\ faults' = faults + 1
       \/ /\ writer.pc = "upd_debit"
          /\ writer'.pc # "ended"
          /\ \A n \in NegOutcomes(CurTransfer.amount) :
                n.panic \/ ~apply_delta(balances, CurTransfer.source_owner,
                                        CurTransfer.mint_pubkey, n.v).ok
       \/ /\ writer.pc = "upd_credit"
          /\ ~apply_delta(balances, CurTransfer.dest_owner,
                          CurTransfer.mint_pubkey, CurTransfer.amount).ok

\* C1: a block whose processing was abandoned is never passed over: while
\* slot N is abandoned and not yet processed again in full, the cursor holds
\* no value >= N.
C1_AbandonedNotPassed ==
    \A n \in abandoned :
        ~(last_processed_slot.some /\ last_processed_slot.v >= n)

\* C2: replay idempotence of balances: each (signature, ix_index) transfer
\* contributes its two deltas to the balances at most once, however often its
\* block is processed.
C2_DeltasAtMostOnce ==
    \A k \in Keys : applied[k].debits <= 1 /\ applied[k].credits <= 1

\* C3: token_transfers and bonding_curve_trades hold at most one row per
\* (signature, ix_index), and the insert of a row whose key is present leaves
\* the table as it was: a replayed block adds no row.
C3_OneRowPerKey ==
    [][/\ NoDup(token_transfers')
       /\ NoDup(bonding_curve_trades')
       /\ (/\ Running("ins_transfers")
           /\ HasKey(token_transfers, CurTransfer.signature,
                     CurTransfer.ix_index))
              => token_transfers' = token_transfers
       /\ (/\ Running("ins_trades")
           /\ HasKey(bonding_curve_trades, CurTrades[writer.i].signature,
                     CurTrades[writer.i].ix_index))
              => bonding_curve_trades' = bonding_curve_trades]_vars

\* A block is inserted again after a restart: its transfer row was there, and
\* the table still holds one row.
C3_Witness ==
    /\ Running("upd_debit")
    /\ restarts = 1
    /\ applied[Key(Transfers[1])].credits = 1
    /\ Len(token_transfers) = 1

\* C4: cursor monotonicity: every write of the cursor stores a slot >= the
\* slot stored before.
C4_CursorMonotone ==
    [][last_processed_slot.some =>
          /\ last_processed_slot'.some
          /\ last_processed_slot'.v >= last_processed_slot.v]_vars

\* C5: the cursor is written with block.slot only after every transfer
\* insert, balance update, trade insert and candle upsert of that block has
\* succeeded.
C5_CursorAfterAllSteps ==
    [][CursorWritten => ~blk_failed]_vars

\* C6: when insert_transfers, update_balances_for_transfers or
\* insert_bonding_curve_trades fails, no later step of the block runs (no
\* row, event or candle is written), the cursor is left alone, and the writer
\* is back at recv for the next block.
C6_FailureSkipsBlock ==
    [][StepFailed =>
          /\ writer' = Idle
          /\ UNCHANGED <<token_transfers, bonding_curve_trades, balances,
                         candles, last_processed_slot, indexer_events,
                         notifications>>]_vars

\* A balance update has failed after the block's transfer was inserted: the
\* writer waits for the next block and no cursor was written.
C6_Witness ==
    /\ Running("recv")
    /\ abandoned # {}
    /\ token_transfers # <<>>
    /\ last_processed_slot = None
    /\ indexer_events = <<>>

\* C7: balance algebra: when the cursor is written for a block whose steps
\* all succeeded, every balance(w, m) differs from its value before the block
\* by the amounts w received less the amounts w sent in the block's transfers.
C7_BalanceAlgebra ==
    [][(CursorWritten /\ ~blk_failed) =>
          \A w \in Wallets, m \in Mints :
              Bal(balances, w, m)
                  = Bal(bal_before, w, m) + Net(Transfers, 1, w, m)]_vars

\* C8: the two deltas of one transfer are applied atomically: outside the
\* update of a row, no transfer has its source debited more often than its
\* destination credited.
C8_DeltasAtomic ==
    writer.pc # "upd_credit" =>
        \A k \in Keys : applied[k].debits = applied[k].credits

\* C9: mass conservation: outside the update of a row, the balances of every
\* mint sum to zero over all wallets, "system" and "burn" included.
C9_MassConserved ==
    writer.pc # "upd_credit" =>
        \A m \in Mints : SumOver(balances, Wallets, m) = 0


\* Both orders have run to their end, by the last row or by an error.
BothEnded ==
    /\ perm.err_l \/ perm.done_l = Len(perm.left)
    /\ perm.err_r \/ perm.done_r = Len(perm.right)

\* C10: the deltas of a set of transfers, applied in any two orders, yield
\* the same final balances.
C10_AnyOrderSameBalances ==
    BothEnded => perm.bal_l = perm.bal_r


RECURSIVE HighOf(_, _)
\* The highest price among the trades log[1..n].
HighOf(log, n) ==
    IF n = 1 THEN log[1].price_nanos_per_token
    ELSE Max(HighOf(log, n - 1), log[n].price_nanos_per_token)

RECURSIVE LowOf(_, _)
\* The lowest price among the trades log[1..n].
LowOf(log, n) ==
    IF n = 1 THEN log[1].price_nanos_per_token
    ELSE Min(LowOf(log, n - 1), log[n].price_nanos_per_token)

RECURSIVE TokenSum(_, _)
TokenSum(log, n) ==
    IF n = 0 THEN 0 ELSE TokenSum(log, n - 1) + log[n].token_amount

RECURSIVE SolSum(_, _)
SolSum(log, n) ==
    IF n = 0 THEN 0 ELSE SolSum(log, n - 1) + log[n].sol_amount

\* C11: candle aggregation: a candle on which N trades of its (mint, bucket)
\* have been upserted has high = the max of their prices, low = the min,
\* volume_token and volume_sol = the sums of their amounts, trades_count = N.
C11_CandleAggregates ==
    \A k \in DOMAIN candles :
        LET log == LogOf(k)
            n == Len(log)
        IN  /\ n >= 1
            /\ candles[k].high = HighOf(log, n)
            /\ candles[k].low = LowOf(log, n)
            /\ candles[k].volume_token = TokenSum(log, n)
            /\ candles[k].volume_sol = SolSum(log, n)
            /\ candles[k].trades_count = n

\* Two trades of one bucket were upserted, the dearer one first.
C11_Witness ==
    \E k \in DOMAIN candles :
        /\ candles[k].trades_count = 2
        /\ LogOf(k)[1].price_nanos_per_token = 2
        /\ LogOf(k)[2].price_nanos_per_token = 1
        /\ candles[k].high = 2
        /\ candles[k].volume_sol = 3

\* C12: in every candle open is the price of the trade that created the
\* row, close the price of the trade upserted last, and low <= open <= high,
\* low <= close <= high.
C12_OpenCloseWithinRange ==
    \A k \in DOMAIN candles :
        LET log == LogOf(k)
            c == candles[k]
        IN  /\ log # <<>>
            /\ c.open = log[1].price_nanos_per_token
            /\ c.close = log[Len(log)].price_nanos_per_token
            /\ c.low <= c.open /\ c.open <= c.high
            /\ c.low <= c.close /\ c.close <= c.high

\* A second trade at another price was upserted on a candle: close moved,
\* open did not.
C12_Witness ==
    \E k \in DOMAIN candles :
        /\ Len(LogOf(k)) = 2
        /\ candles[k].open = 1
        /\ candles[k].close = 2

\* C13: candle upserts preserve stream order: the trade whose candle is being
\* upserted comes later in the block (higher ix_index) than every trade of the
\* same (mint, bucket) the candle loop has passed before it.
C13_UpsertsInStreamOrder ==
    Running("candle") =>
        \A j \in 1..(writer.i - 1) :
            LET e == all_trades(writer.block)[j]
            IN  (/\ e.block_time.some
                 /\ CandleKey(CandleOf(e)) = CandleKey(CandleOf(CurCandleTrade)))
                => e.ix_index < CurCandleTrade.ix_index

Range(f) == {f[x] : x \in DOMAIN f}

\* C14: an event of a transfer or a trade is appended and broadcast only
\* after the insert of its row returned success, for a transfer after its
\* balance update too: every event has its row in the table.
C14_EventsAfterRows ==
    \A e \in Range(indexer_events) \cup Range(notifications) :
        /\ e.topic = "transfers" =>
              /\ HasKey(token_transfers, e.signature, e.ix_index)
              /\ applied[<<e.signature, e.ix_index>>].debits >= 1
              /\ applied[<<e.signature, e.ix_index>>].credits >= 1
        /\ e.topic = "bonding" =>
              HasKey(bonding_curve_trades, e.signature, e.ix_index)

\* The insert step of one block failed and its rows have no event, while a
\* block whose inserts succeeded has its event.
C14_Witness ==
    /\ abandoned # {}
    /\ faults = 1
    /\ \E e \in Range(notifications) :
           /\ e.topic \in {"transfers", "bonding"}
           /\ e.signature \notin abandoned

\* A step in which insert_event returns an error to the writer.
EventFailed ==
    /\ proc = "up"
    /\ proc' = "up"
    /\ writer.pc \in {"ev_transfers", "ev_trades", "ev_candle"}
    /\ faults' = faults + 1

\* C15: a failure of insert_event for one row does not stop the events of
\* the remaining rows, skips no trade insert or candle upsert of the block,
\* and leaves the block on its way to the cursor write.
C15_EventFailureIsolated ==
    [][EventFailed =>
          /\ writer'.block = writer.block
          /\ abandoned' = abandoned
          /\ writer.pc = "ev_transfers" =>
                IF writer.i < Len(Transfers)
                THEN writer'.pc = "ev_transfers" /\ writer'.i = writer.i + 1
                ELSE IF all_trades(writer.block) # <<>>
                THEN writer'.pc = "ins_trades"
                ELSE writer'.pc = "set_cursor"
          /\ writer.pc = "ev_trades" =>
                IF writer.i < Len(CurTrades)
                THEN writer'.pc = "ev_trades" /\ writer'.i = writer.i + 1
                ELSE writer'.pc \in {"ins_trades", "candle", "set_cursor"}
          /\ writer.pc = "ev_candle" =>
                writer'.pc \in {"candle", "set_cursor"}]_vars

\* The only block dequeued so far had an insert_event fail (more calls than
\* events stored) and the cursor holds its slot.
C15_Witness ==
    /\ Running("recv")
    /\ restarts = 0
    /\ faults = 1
    /\ Len(trace.dequeued) = 1
    /\ last_processed_slot = Some(trace.dequeued[1])
    /\ trace.calls.transfers + trace.calls.bonding + trace.calls.candles
           > Len(indexer_events)

\* C16: each decoded transfer and each decoded trade emits exactly one
\* event: when the writer reaches the cursor write of a block, insert_event
\* has been called once per transfer, once per trade, and once per candle
\* upsert that succeeded.
C16_OneEventPerRow ==
    Running("set_cursor") =>
        /\ trace.calls.transfers = Len(Transfers)
        /\ trace.calls.bonding = Len(all_trades(writer.block))
        /\ trace.calls.candles = trace.calls.upserts

\* The writer is at the cursor write of a block of two trades, after two
\* trade events and two candle events.
C16_Witness ==
    /\ Running("set_cursor")
    /\ trace.calls.bonding = 2
    /\ trace.calls.candles = 2

IsPrefix(a, b) ==
    /\ Len(a) <= Len(b)
    /\ \A i \in 1..Len(a) : a[i] = b[i]

SlotsOf(q) == [i \in 1..Len(q) |-> q[i].slot]

\* C17: the one writer is sequential: a block is dequeued only when the
\* writer holds no block (the steps of the block before it are complete or
\* abandoned), and the blocks are dequeued in the order in which the
\* ingestion task pushed them.
C17_SequentialInOrder ==
    [][/\ IsPrefix(trace'.dequeued, trace'.pushed)
       /\ Len(trace'.dequeued) > Len(trace.dequeued) =>
             /\ writer = Idle
             /\ writer'.block.slot = trace.pushed[Len(trace.dequeued) + 1]]_vars

\* Three blocks were pushed: the writer is at the end of the second and the
\* third waits in the channel.
C17_Witness ==
    /\ Len(trace.dequeued) >= 2
    /\ Len(trace.pushed) = 3
    /\ Len(block_rx) = 1
    /\ writer.pc = "set_cursor"
    /\ writer.block.slot = 1

\* C18: backpressure: the channel never holds more than its capacity, and
\* while the writer lives the blocks pushed are the blocks dequeued followed
\* by the blocks in the channel, each as the stream delivered it: none
\* dropped, duplicated or reordered.
C18_Backpressure ==
    /\ Len(block_rx) <= QueueCap
    /\ (proc = "up" /\ writer.pc # "ended") =>
          /\ trace.pushed = trace.dequeued \o SlotsOf(block_rx)
          /\ \A i \in 1..Len(block_rx) : block_rx[i] = BlockAt(block_rx[i].slot)

\* The channel is full and the ingestion task has a further block to send.
C18_Witness ==
    /\ proc = "up"
    /\ writer.pc # "ended"
    /\ Len(block_rx) = QueueCap
    /\ firehose.pc = "stream"
    /\ firehose.current_slot <= MaxSlot

\* The first connection of a run of the process.
FirstConnect ==
    /\ proc = "up"
    /\ firehose.pc = "connect"
    /\ firehose'.pc = "stream"
    /\ trace.pushed = <<>>

\* C19: the first connection streams from cursor + 1 when a cursor row
\* exists, otherwise from the configured from_slot, otherwise from 0, and
\* FirehoseClient::new sets last_slot to the from_slot it is given.
C19_StartSlot ==
    [][FirstConnect =>
          /\ firehose'.current_slot =
                 IF last_processed_slot.some THEN last_processed_slot.v + 1
                 ELSE UnwrapOr(config_from_slot, 0)
          /\ firehose.last_slot = firehose.from_slot]_vars

\* C19 for the cursor as read: the first connection streams from the slot
\* after the one the cursor read returned; when the read returned no row or
\* failed, from the configured from_slot, otherwise from 0.
C19_StartSlotFromRead ==
    [][FirstConnect =>
          /\ trace.cursor_read \in {last_processed_slot, None}
          /\ firehose'.current_slot =
                 IF trace.cursor_read.some THEN trace.cursor_read.v + 1
                 ELSE UnwrapOr(config_from_slot, 0)
          /\ firehose.last_slot = firehose.from_slot]_vars

\* After a restart that read the cursor, the stream has started at the slot
\* after it.
C19_Witness ==
    /\ proc = "up"
    /\ firehose.pc = "stream"
    /\ trace.pushed = <<>>
    /\ trace.cursor_read.some
    /\ firehose.current_slot = trace.cursor_read.v + 1

\* C20: every reconnect after a stream error starts streaming at the slot
\* after the highest slot pushed.
C20_ResumeAfterLastPushed ==
    [][(/\ proc = "up"
        /\ firehose.pc = "connect"
        /\ firehose'.pc = "stream"
        /\ trace.pushed # <<>>)
       => firehose'.current_slot = trace.pushed[Len(trace.pushed)] + 1]_vars

\* C21: the delay slept before the k-th reconnect in a row is
\* min(initial_backoff_ms * 2^(k-1), max_backoff_ms), and no delay exceeds
\* max_backoff_ms, for any pair of settings.
C21_BackoffSchedule ==
    \A k \in 1..Len(trace.slept) :
        /\ trace.slept[k] =
               Min(initial_backoff_ms * Pow2(k - 1), max_backoff_ms)
        /\ trace.slept[k] <= max_backoff_ms

WriterAlive == writer.pc \notin {"ended", "returned"}

\* A step in which connect_and_stream returns Err to stream_blocks.
StreamFailed ==
    /\ proc = "up"
    /\ proc' = "up"
    /\ Len(trace'.slept) > Len(trace.slept)

C30_ProcessTermination ==
    /\ [](proc = "up" =>
            (ENABLED RunIndexerReturn <=>
                (~WriterAlive \/ firehose.pc = "ended")))
    /\ [][/\ (writer'.pc = "returned" /\ writer.pc # "returned") =>
                firehose.pc = "ended"
          /\ (firehose'.pc = "ended" /\ firehose.pc # "ended") =>
                2 * firehose.backoff_ms > BACKOFF_U64_MAX]_vars

\* The ingestion task has ended while the writer still waits in recv.
C30_Witness ==
    /\ proc = "up"
    /\ firehose.pc = "ended"
    /\ writer.pc = "recv"
    /\ ENABLED RunIndexerReturn

\* C23: with a non-empty whitelist every emitted transfer has its mint in
\* the whitelist; a complete instruction of variant 12, 13, 7, 8 or 14 is
\* emitted exactly when its mint account is in the set and a Transfer (3)
\* never; with an empty whitelist every complete instruction is emitted.
C23_WhitelistPolicy ==
    dec.pc = "extracted" =>
        LET I == Instructions(dec.block.transactions)
        IN  /\ dec.mint_whitelist # {} =>
                  \A i \in 1..Len(dec.transfers) :
                      dec.transfers[i].mint_pubkey \in dec.mint_whitelist
            /\ \A k \in 1..Len(I) :
                  (/\ I[k].ix.program_id = SPL_TOKEN_PROGRAM_ID
                   /\ SplComplete(I[k].tx, I[k].ix)) =>
                      (RowsOf(dec.transfers, I[k].tx, I[k].ix) # {}
                          <=> Listed(I[k].tx, I[k].ix, dec.mint_whitelist))

\* A whitelist that holds the mint of one complete instruction of the block
\* and not the mint of another: one row is emitted.
C23_Witness ==
    /\ dec.pc = "extracted"
    /\ dec.mint_whitelist = {"M"}
    /\ Len(dec.transfers) = 1
    /\ LET I == Instructions(dec.block.transactions)
       IN  \E k \in 1..Len(I) :
              /\ I[k].ix.program_id = SPL_TOKEN_PROGRAM_ID
              /\ SplComplete(I[k].tx, I[k].ix)
              /\ I[k].ix.data[1] = INSTR_MINT_TO
              /\ MintAccount(I[k].tx, I[k].ix) = "A"

\* C24: no extractor panics, whatever the data length, the account list,
\* the length of account_keys and the discriminator; an instruction that is
\* not complete yields no row in any output, and the complete instructions
\* of the block are decoded all the same (an SPL one when the whitelist lets
\* it through).
C24_DecodersNeverFail ==
    /\ dec.pc # "panicked"
    /\ dec.pc = "extracted" =>
          LET I == Instructions(dec.block.transactions)
          IN  \A k \in 1..Len(I) :
                 LET tx == I[k].tx
                     ix == I[k].ix
                 IN  /\ ~Complete(tx, ix) =>
                          /\ RowsOf(dec.transfers, tx, ix) = {}
                          /\ RowsOf(dec.pump_trades, tx, ix) = {}
                          /\ RowsOf(dec.raydium_trades, tx, ix) = {}
                          /\ RowsOf(dec.meteora_trades, tx, ix) = {}
                     /\ (/\ Complete(tx, ix)
                         /\ ix.program_id = SPL_TOKEN_PROGRAM_ID =>
                               Listed(tx, ix, dec.mint_whitelist)) =>
                          Cardinality(RowsOf(OutputFor(ix), tx, ix)) = 1

\* A TransferChecked with an account index past the end of account_keys is
\* skipped and the four instructions of the other transaction are decoded.
C24_Witness ==
    /\ dec.pc = "extracted"
    /\ Len(dec.transfers) = 1
    /\ Len(dec.pump_trades) = 1
    /\ Len(dec.raydium_trades) = 1
    /\ Len(dec.meteora_trades) = 1
    /\ LET I == Instructions(dec.block.transactions)
       IN  /\ I[1].ix.program_id = SPL_TOKEN_PROGRAM_ID
           /\ Len(I[1].ix.data) >= 10
           /\ I[1].ix.data[1] = INSTR_TRANSFER_CHECKED
           /\ Len(I[1].ix.accounts) = 3
           /\ ~InRange(I[1].tx, I[1].ix, 2)

\* C25: every emitted TokenTransfer has amount >= 0 and amount equal to the
\* little-endian u64 at data[1..9] of its instruction.
C25_AmountIsU64 ==
    dec.pc = "extracted" =>
        LET I == Instructions(dec.block.transactions)
        IN  \A k \in 1..Len(I) :
               \A i \in RowsOf(dec.transfers, I[k].tx, I[k].ix) :
                   /\ dec.transfers[i].amount >= 0
                   /\ dec.transfers[i].amount =
                          from_le_bytes(SubSeq(I[k].ix.data, 2, 9))

\* Integer division of two i64, rounding toward zero.
TruncDiv(a, b) ==
    IF (a >= 0) = (b >= 0)
    THEN (IF a >= 0 THEN a ELSE 0 - a) \div (IF b >= 0 THEN b ELSE 0 - b)
    ELSE 0 - ((IF a >= 0 THEN a ELSE 0 - a) \div (IF b >= 0 THEN b ELSE 0 - b))

\* Every trade of rows has price = sol_amount div token_amount on its stored
\* fields, and 0 when token_amount = 0.
PricedByRule(rows) ==
    \A i \in 1..Len(rows) :
        rows[i].price_nanos_per_token =
            IF rows[i].token_amount = 0 THEN 0
            ELSE TruncDiv(rows[i].sol_amount, rows[i].token_amount)

\* C26: every trade emitted by the three trade decoders has, on its stored
\* fields, price_nanos_per_token = sol_amount div token_amount, and 0 when
\* token_amount = 0.
C26_PriceRule ==
    dec.pc = "extracted" =>
        /\ PricedByRule(dec.pump_trades)
        /\ PricedByRule(dec.raydium_trades)
        /\ PricedByRule(dec.meteora_trades)

\* The two amounts of the swap instruction k of the dequeued block.
AmountIn(k) ==
    from_le_bytes(SubSeq(Instructions(dec.block.transactions)[k].ix.data, 2, 9))
AmountOut(k) ==
    from_le_bytes(SubSeq(Instructions(dec.block.transactions)[k].ix.data, 10, 17))

\* Both decoders have emitted the trade of their instruction.
BothSides ==
    /\ dec.pc = "extracted"
    /\ Len(dec.raydium_trades) = 1
    /\ Len(dec.meteora_trades) = 1

\* C27 as amended: the AMM and the DLMM decoder yield the same side; it is
\* "buy" when either amount is zero, and otherwise "sell" exactly when the
\* f64 quotient (amount_out as f64) / (amount_in as f64) is below the f64
\* 0.1; for amounts that an f64 holds exactly this is 10 * amount_out <
\* amount_in.
C27_SharedDirection ==
    BothSides =>
        LET side == dec.raydium_trades[1].side
            in == AmountIn(1)
            out == AmountOut(1)
        IN  /\ dec.meteora_trades[1].side = side
            /\ side \in {"buy", "sell"}
            /\ (in = 0 \/ out = 0) => side = "buy"
            /\ (in # 0 /\ out # 0) =>
                  (side = "sell" <=>
                      F64Lt(F64Div(AsF64(out), AsF64(in)), F64_0_1))
            /\ (in < Pow2(MantissaBits) /\ out < Pow2(MantissaBits)) =>
                  (side = "sell" <=> (in # 0 /\ out # 0 /\ 10 * out < in))

\* A sell on both decoders with amounts above the range an f64 holds
\* exactly.
C27_Witness ==
    /\ BothSides
    /\ dec.raydium_trades[1].side = "sell"
    /\ dec.meteora_trades[1].side = "sell"
    /\ AmountIn(1) > Pow2(MantissaBits)
    /\ AmountOut(1) > Pow2(MantissaBits)

\* C27 as stated: the side is "sell" exactly when both amounts are non-zero
\* and 10 * amount_out < amount_in.
C27_ExactRule ==
    BothSides =>
        /\ dec.meteora_trades[1].side = dec.raydium_trades[1].side
        /\ dec.raydium_trades[1].side = "sell" <=>
              (/\ AmountIn(1) # 0
               /\ AmountOut(1) # 0
               /\ 10 * AmountOut(1) < AmountIn(1))

\* The payload's topic is in T when a topic list was given and its mint is m
\* when a mint was given; a payload that is no JSON has neither.
Matches(sub, payload) ==
    LET v == from_str(payload)
    IN  /\ sub.allowed_topics # <<>> =>
              (v.ok /\ v.topic \in sub.allowed_topics[1])
        /\ sub.allowed_mint # <<>> => (v.ok /\ v.mint = sub.allowed_mint)

\* C28: whatever a subscriber is sent is the payload it received from the
\* broadcast channel, unmodified, and that payload matches the filters of
\* the subscriber's last subscription.
C28_SubscriberFiltering ==
    [][\A s \in Subscribers :
          Len(api'.subs[s].sent) > Len(api.subs[s].sent) =>
              LET payload == api.log[api.subs[s].rx]
              IN  /\ api'.subs[s].sent = Append(api.subs[s].sent, payload)
                  /\ Matches(api.subs[s], payload)]_vars

\* C29: a step in which a subscriber's loop ends, on a failed send or
\* otherwise, and a step in which a lagging subscriber is moved past the
\* messages it lost, leave every other subscriber as it was; the lagging
\* subscriber stays connected and is sent nothing for what it lost; a
\* subscriber that is open with a retained message to read can always
\* take it, and when it takes one that matches its filters and its own send
\* succeeds, it is sent that message.
C29_SubscriberIsolation ==
    /\ [][\A s \in Subscribers :
             LET a == api.subs[s]
                 b == api'.subs[s]
                 others == \A t \in Subscribers \ {s} :
                               api'.subs[t] = api.subs[t]
             IN  /\ (a.st = "open" /\ b.st \in {"failed", "closed"}) => others
                 /\ (a.st = "open" /\ a.rx < Oldest /\ b.rx # a.rx) =>
                       /\ others
                       /\ b = [a EXCEPT !.rx = Oldest,
                                        !.lost = @ + Oldest - a.rx]
                 /\ (/\ a.st = "open" /\ b.st = "open"
                     /\ a.rx >= Oldest /\ b.rx = a.rx + 1
                     /\ Matches(a, api.log[a.rx])) =>
                       b.sent = Append(a.sent, api.log[a.rx])]_vars
    /\ [](\A t \in Subscribers :
             (/\ api.subs[t].st = "open"
              /\ api.subs[t].rx >= Oldest
              /\ api.subs[t].rx <= Len(api.log)) => ENABLED WsEvent(t))

\* Subscriber 1 has ended on a failed send; subscriber 2 has lagged, lost
\* the first event and has since been sent the second and the third.
C29_Witness ==
    /\ api.subs[1].st = "failed"
    /\ api.subs[2].st = "open"
    /\ api.subs[2].lost = 1
    /\ Len(api.log) = 3
    /\ api.subs[2].sent = <<api.log[2], api.log[3]>>

\* C31: a TransferChecked (12) with at least 3 accounts and 10 data bytes,
\* its accounts resolvable and its mint let through, yields a row with
\* source_ata = keys[accounts[0]], mint = keys[accounts[1]], dest_ata =
\* keys[accounts[2]], source_owner = source_ata and dest_owner = dest_ata;
\* a row of MintTo/MintToChecked (7/13) has source_owner = source_ata =
\* "system", mint = keys[accounts[0]] and dest = keys[accounts[1]]; a row of
\* Burn/BurnChecked (8/14) has dest_owner = dest_ata = "burn", source =
\* keys[accounts[0]] and mint = keys[accounts[1]].
C31_SplSemanticMapping ==
    dec.pc = "extracted" =>
        LET I == Instructions(dec.block.transactions)
        IN  \A k \in 1..Len(I) :
               LET tx == I[k].tx
                   ix == I[k].ix
                   rows == RowsOf(dec.transfers, tx, ix)
               IN  /\ (/\ ix.program_id = SPL_TOKEN_PROGRAM_ID
                       /\ SplComplete(tx, ix)
                       /\ ix.data[1] # INSTR_TRANSFER
                       /\ Listed(tx, ix, dec.mint_whitelist)) => rows # {}
                   /\ \A i \in rows :
                        LET row == dec.transfers[i]
                        IN  CASE ix.data[1] = INSTR_TRANSFER_CHECKED ->
                                   /\ Len(ix.accounts) >= 3
                                   /\ Len(ix.data) >= 10
                                   /\ row.source_ata = Resolve(tx, ix, 0)
                                   /\ row.mint_pubkey = Resolve(tx, ix, 1)
                                   /\ row.dest_ata = Resolve(tx, ix, 2)
                                   /\ row.source_owner = row.source_ata
                                   /\ row.dest_owner = row.dest_ata
                              [] ix.data[1] \in {INSTR_MINT_TO,
                                                 INSTR_MINT_TO_CHECKED} ->
                                   /\ row.source_owner = "system"
                                   /\ row.source_ata = "system"
                                   /\ row.mint_pubkey = Resolve(tx, ix, 0)
                                   /\ row.dest_ata = Resolve(tx, ix, 1)
                                   /\ row.dest_owner = Resolve(tx, ix, 1)
                              [] ix.data[1] \in {INSTR_BURN,
                                                 INSTR_BURN_CHECKED} ->
                                   /\ row.dest_owner = "burn"
                                   /\ row.dest_ata = "burn"
                                   /\ row.source_ata = Resolve(tx, ix, 0)
                                   /\ row.source_owner = Resolve(tx, ix, 0)
                                   /\ row.mint_pubkey = Resolve(tx, ix, 1)
                              [] OTHER -> ix.data[1] = INSTR_TRANSFER

\* A BurnChecked whose accounts list the keys out of order next to the
\* TransferChecked of the other transaction: both rows are emitted.
C31_Witness ==
    /\ dec.pc = "extracted"
    /\ Len(dec.transfers) = 2
    /\ \E i, j \in 1..Len(dec.transfers) :
          /\ dec.transfers[i].dest_ata = "burn"
          /\ dec.transfers[i].source_ata = "M"
          /\ dec.transfers[i].mint_pubkey = "A"
          /\ dec.transfers[j].source_owner = "A"
          /\ dec.transfers[j].mint_pubkey = "M"
          /\ dec.transfers[j].dest_owner = "B"
    /\ LET I == Instructions(dec.block.transactions)
       IN  \E k \in 1..Len(I) : /\ I[k].ix.program_id = SPL_TOKEN_PROGRAM_ID
                                /\ I[k].ix.data # <<>>
                                /\ I[k].ix.data[1] = INSTR_BURN_CHECKED

\* C32: an instruction of the bonding program yields a trade only if its
\* first 8 bytes are the "buy" or the "sell" discriminator, 16 more bytes
\* follow and it lists at least 7 accounts; the trade then has mint =
\* keys[accounts[2]], trader = keys[accounts[6]], token_amount = the first
\* u64, sol_amount = the second u64 and the side of its discriminator.
C32_BondingDecode ==
    dec.pc = "extracted" =>
        LET I == Instructions(dec.block.transactions)
        IN  \A k \in 1..Len(I) :
               LET tx == I[k].tx
                   ix == I[k].ix
               IN  ix.program_id = PUMP_PROGRAM_ID =>
                     \A i \in RowsOf(dec.pump_trades, tx, ix) :
                        LET row == dec.pump_trades[i]
                        IN  /\ Len(ix.data) >= 24
                            /\ SubSeq(ix.data, 1, 8) \in {BUY_DISC, SELL_DISC}
                            /\ Len(ix.accounts) >= 7
                            /\ row.mint_pubkey = Resolve(tx, ix, 2)
                            /\ row.trader = Resolve(tx, ix, 6)
                            /\ row.token_amount =
                                  from_le_bytes(SubSeq(ix.data, 9, 16))
                            /\ row.sol_amount =
                                  from_le_bytes(SubSeq(ix.data, 17, 24))
                            /\ row.side = IF SubSeq(ix.data, 1, 8) = BUY_DISC
                                          THEN "buy" ELSE "sell"

\* C33: an instruction of an AMM program yields a trade only with at least
\* 17 data bytes and at least 3 accounts, an instruction of the DLMM program
\* only with at least 17 data bytes and accounts[0] and accounts[1]
\* resolvable; the trade has trader = keys[accounts[0]], sol_amount = the u64
\* at bytes 1..9 and token_amount = the u64 at bytes 9..17, the DLMM trade has
\* mint = keys[accounts[1]], and an instruction of any other program id has no
\* row in the output of the two decoders.
C33_SwapDecode ==
    dec.pc = "extracted" =>
        LET I == Instructions(dec.block.transactions)
        IN  \A k \in 1..Len(I) :
               LET tx == I[k].tx
                   ix == I[k].ix
                   amm == RowsOf(dec.raydium_trades, tx, ix)
                   dlmm == RowsOf(dec.meteora_trades, tx, ix)
               IN  /\ ~is_raydium_program(ix.program_id) => amm = {}
                   /\ ix.program_id # METEORA_DLMM_PROGRAM_ID => dlmm = {}
                   /\ \A i \in amm :
                        /\ Len(ix.data) >= 17
                        /\ Len(ix.accounts) >= 3
                        /\ dec.raydium_trades[i].trader = Resolve(tx, ix, 0)
                        /\ dec.raydium_trades[i].sol_amount =
                              from_le_bytes(SubSeq(ix.data, 2, 9))
                        /\ dec.raydium_trades[i].token_amount =
                              from_le_bytes(SubSeq(ix.data, 10, 17))
                   /\ \A i \in dlmm :
                        /\ Len(ix.data) >= 17
                        /\ InRange(tx, ix, 0)
                        /\ InRange(tx, ix, 1)
                        /\ dec.meteora_trades[i].trader = Resolve(tx, ix, 0)
                        /\ dec.meteora_trades[i].mint_pubkey = Resolve(tx, ix, 1)
                        /\ dec.meteora_trades[i].sol_amount =
                              from_le_bytes(SubSeq(ix.data, 2, 9))
                        /\ dec.meteora_trades[i].token_amount =
                              from_le_bytes(SubSeq(ix.data, 10, 17))

\* C34: for every trade with a block time t, negative values included, the
\* bucket_start b of its candle satisfies b <= t < b + 60 and b is a multiple
\* of 60; a trade with no block time gets no candle upsert and no candle
\* event.
C34_BucketFloor ==
    /\ \A k \in DOMAIN trace.candle_log :
          \A i \in 1..Len(trace.candle_log[k]) :
              LET bt == trace.candle_log[k][i].block_time
              IN  /\ bt.some
                  /\ k[3] <= bt.v
                  /\ bt.v < k[3] + TimeframeSecs
                  /\ k[3] % TimeframeSecs = 0
    /\ \A k \in DOMAIN candles :
          /\ k \in DOMAIN trace.candle_log
          /\ candles[k].bucket_start = k[3]
    /\ \A i \in 1..Len(indexer_events) :
          indexer_events[i].topic = "candles" =>
              BlockAt(indexer_events[i].signature).block_time_unix.some

\* The position, in the order of the two loops, of the instruction a row was
\* decoded from.
PosOf(row) ==
    LET I == Instructions(dec.block.transactions)
    IN  CHOOSE k \in 1..Len(I) :
           I[k].tx.index = row.tx_index /\ I[k].ix.index = row.ix_index

\* The rows are in the order of the two loops, strictly ascending in
\* (tx_index, ix_index), at most one per instruction.
InBlockOrder(rows) ==
    /\ \A i, j \in 1..Len(rows) :
          i < j =>
             /\ PosOf(rows[i]) < PosOf(rows[j])
             /\ \/ rows[i].tx_index < rows[j].tx_index
                \/ /\ rows[i].tx_index = rows[j].tx_index
                   /\ rows[i].ix_index < rows[j].ix_index
    /\ LET I == Instructions(dec.block.transactions)
       IN  \A k \in 1..Len(I) :
              Cardinality(RowsOf(rows, I[k].tx, I[k].ix)) <= 1

\* C35: the output of each decoder is in the order of the block's
\* transactions and, within a transaction, of its instructions: it is
\* strictly ascending in (tx_index, ix_index) and holds at most one row per
\* instruction.
C35_DecoderOutputOrder ==
    dec.pc = "extracted" =>
        /\ InBlockOrder(dec.transfers)
        /\ InBlockOrder(dec.pump_trades)
        /\ InBlockOrder(dec.raydium_trades)
        /\ InBlockOrder(dec.meteora_trades)

\* Three trades of one decoder out of two transactions, two of them from
\* the same transaction, next to an instruction of another decoder.
C35_Witness ==
    /\ dec.pc = "extracted"
    /\ Len(dec.pump_trades) = 3
    /\ Len(dec.transfers) = 1
    /\ dec.pump_trades[1].tx_index = 0
    /\ dec.pump_trades[2].tx_index = 1
    /\ dec.pump_trades[2].ix_index = 0
    /\ dec.pump_trades[3].tx_index = 1
    /\ dec.pump_trades[3].ix_index = 1

\* A step of the writer inside insert_event.
InInsertEvent ==
    /\ proc = "up"
    /\ proc' = "up"
    /\ writer.pc \in {"ev_transfers", "ev_trades", "ev_candle"}
    /\ writer' # writer

\* C36: insert_event appends the row to the event log first and issues the
\* broadcast second: a broadcast is issued only in a call that has appended
\* the same event to the log, and a call whose log insert fails issues no
\* broadcast and returns an error.
C36_LogThenBroadcast ==
    [][/\ notifications' # notifications =>
            /\ InInsertEvent
            /\ Len(indexer_events') = Len(indexer_events) + 1
            /\ notifications' =
                  Append(notifications, indexer_events'[Len(indexer_events')])
            /\ faults' = faults
       /\ (InInsertEvent /\ indexer_events' = indexer_events) =>
            /\ notifications' = notifications
            /\ faults' = faults + 1]_vars

\* Two calls of insert_event so far: the log insert of one has failed, the
\* other has appended its row and issued its broadcast.
C36_Witness ==
    /\ trace.calls.transfers + trace.calls.bonding + trace.calls.candles = 2
    /\ faults = 1
    /\ Len(indexer_events) = 1
    /\ Len(notifications) = 1
    /\ notifications[1] = indexer_events[1]

\* C37: nothing deduplicates candle upserts and events. An upsert that
\* succeeds on an existing candle adds the trade's token_amount, sol_amount
\* and one count to it, whether or not the trade was upserted before; an
\* insert_event call that succeeds appends one row to the log, whether or not
\* the event is there already; a trade row whose (signature, ix_index) is in
\* the table is not inserted again.
C37_NoDeduplication ==
    [][/\ (Running("candle") /\ proc' = "up" /\ writer'.pc = "ev_candle") =>
            LET t == CurCandleTrade
                k == CandleKey(CandleOf(t))
            IN  /\ k \in DOMAIN candles'
                /\ k \in DOMAIN candles =>
                     /\ candles'[k].volume_token =
                           candles[k].volume_token + t.token_amount
                     /\ candles'[k].volume_sol =
                           candles[k].volume_sol + t.sol_amount
                     /\ candles'[k].trades_count = candles[k].trades_count + 1
       /\ (InInsertEvent /\ faults' = faults) =>
            Len(indexer_events') = Len(indexer_events) + 1
       /\ (/\ Running("ins_trades") /\ proc' = "up" /\ writer' # writer
           /\ faults' = faults) =>
            LET r == CurTrades[writer.i]
            IN  IF HasKey(bonding_curve_trades, r.signature, r.ix_index)
                THEN bonding_curve_trades' = bonding_curve_trades
                ELSE bonding_curve_trades' = Append(bonding_curve_trades, r)]_vars

\* A block with one trade has been processed twice: one trade row, the trade
\* twice in its candle, and two trade events and two candle events in the log.
C37_Witness ==
    /\ restarts = 1
    /\ Len(bonding_curve_trades) = 1
    /\ \E k \in DOMAIN candles :
          /\ Len(LogOf(k)) = 2
          /\ LogOf(k)[1] = LogOf(k)[2]
          /\ LogOf(k)[1] = bonding_curve_trades[1]
          /\ candles[k].trades_count = 2
          /\ candles[k].volume_token = 2 * LogOf(k)[1].token_amount
          /\ candles[k].volume_sol = 2 * LogOf(k)[1].sol_amount
    /\ Len(indexer_events) = 4
    /\ indexer_events[1] = indexer_events[3]
    /\ indexer_events[2] = indexer_events[4]
    /\ indexer_events[1].topic = "bonding"
    /\ indexer_events[2].topic = "candles"

\* C38: a client that has sent no subscribe message has no filter and is
\* sent every event its receiver yields; each subscribe message is
\* acknowledged and replaces both the topic filter and the mint filter with
\* those of the message, a missing field meaning no restriction; a message
\* of any other type leaves the filters unchanged.
C38_SubscriptionState ==
    [][\A s \in Subscribers :
          LET sub == api.subs[s]
              now == api'.subs[s]
          IN  /\ (sub.st = "open" /\ sub.acks = 0) =>
                    /\ sub.allowed_topics = <<>>
                    /\ sub.allowed_mint = <<>>
                    /\ (/\ now.rx = sub.rx + 1 /\ now.lost = sub.lost
                        /\ now.st = "open") =>
                          now.sent = Append(sub.sent, api.log[sub.rx])
              /\ now.acks # sub.acks =>
                    /\ now.acks = sub.acks + 1
                    /\ now.subscribed # <<>>
                    /\ now.allowed_topics = now.subscribed[1].topics
                    /\ now.allowed_mint = now.subscribed[1].mint
              /\ now.acks = sub.acks =>
                    /\ now.allowed_topics = sub.allowed_topics
                    /\ now.allowed_mint = sub.allowed_mint
                    /\ now.subscribed = sub.subscribed]_vars

\* A client that was sent an event before it subscribed, then subscribed to
\* a topic and a mint, then subscribed again with neither field and sent
\* another message: two acknowledgements and no filter.
C38_Witness ==
    /\ api.subs[1].st = "open"
    /\ api.subs[1].acks = 2
    /\ api.subs[1].others = 1
    /\ api.subs[1].subscribed = <<[topics |-> <<>>, mint |-> <<>>]>>
    /\ api.subs[1].allowed_topics = <<>>
    /\ api.subs[1].allowed_mint = <<>>
    /\ Len(api.subs[1].sent) = 2
    /\ api.subs[1].sent[1] = P_CANDLES_M
    /\ api.subs[1].rx = 4
    /\ api.subs[1].lost = 0

\* C39: a failed cursor read at startup is swallowed: the process starts,
\* the firehose client is the one built when no cursor row exists, and its
\* first connection streams from the configured from_slot, else from 0,
\* whatever the cursor row holds.
C39_CursorReadFailure ==
    [][/\ (proc = "down" /\ faults' # faults) =>
            /\ proc' = "up"
            /\ trace'.cursor_read = None
            /\ firehose' = NewFirehoseClient(config_from_slot)
            /\ last_processed_slot' = last_processed_slot
       /\ (FirstConnect /\ restarts > 0 /\ trace.cursor_read = None) =>
            firehose'.current_slot = UnwrapOr(config_from_slot, 0)]_vars

\* The cursor row holds slot 2, its read failed at the restart, and the
\* first connection streams from slot 0.
C39_Witness ==
    /\ proc = "up"
    /\ restarts = 1
    /\ faults = 1
    /\ trace.cursor_read = None
    /\ trace.pushed = <<>>
    /\ last_processed_slot = Some(2)
    /\ config_from_slot = None
    /\ firehose.pc = "stream"
    /\ firehose.current_slot = 0

\* C40: the bridge puts each notification on the broadcast channel when it
\* arrives, behind those before it; a subscriber that has never lagged takes
\* the events one by one in that order, and each payload it is sent is the
\* next one in arrival order that it has not yet taken.
C40_PerSubscriberOrder ==
    [][/\ api'.arrived # api.arrived =>
            /\ Len(api'.arrived) = Len(api.arrived) + 1
            /\ api'.log = Append(api.log, api'.arrived[Len(api'.arrived)])
            /\ \A s \in Subscribers : api'.subs[s] = api.subs[s]
       /\ api.log = api.arrived
       /\ \A s \in Subscribers :
            LET sub == api.subs[s]
                now == api'.subs[s]
            IN  (sub.st = "open" /\ now.lost = 0) =>
                   /\ now.rx \in {sub.rx, sub.rx + 1}
                   /\ now.sent # sub.sent =>
                         /\ now.rx = sub.rx + 1
                         /\ now.sent = Append(sub.sent, api.arrived[sub.rx])
                   /\ (now.rx = sub.rx + 1 /\ now.sent = sub.sent) =>
                         \/ now.st = "failed"
                         \/ ~Matches(sub, api.arrived[sub.rx])]_vars

\* A subscriber to the topic "transfers" that has not lagged was sent the
\* first and the third notification, in that order, and not the second.
C40_Witness ==
    /\ api.arrived = <<P_TRANSFERS_M, P_CANDLES_M, P_TRANSFERS_X>>
    /\ api.subs[1].st = "open"
    /\ api.subs[1].lost = 0
    /\ api.subs[1].allowed_topics = <<{"transfers"}>>
    /\ api.subs[1].allowed_mint = <<>>
    /\ api.subs[1].sent = <<P_TRANSFERS_M, P_TRANSFERS_X>>
    /\ api.subs[2].st = "open"
    /\ api.subs[2].sent = <<P_TRANSFERS_M, P_CANDLES_M>>

====
